---- MODULE Spec2Model ----
(***************************************************************************)
(* State-machine model of the DHT simulator: the Network orchestrators of  *)
(* the ring overlay (src/chord/network.py, ChordNetwork) and of the prefix *)
(* overlay (src/pastry/network.py, PastryNetwork), with the node-local     *)
(* routing state they rebuild and the routing loops they drive.            *)
(*                                                                         *)
(* The identifier space is scaled down from 128 bits to MBits bits; the    *)
(* hexadecimal digits of an identifier are scaled down from 4 bits to      *)
(* DigitBits bits.  All ring arithmetic is done modulo 2^MBits, as the     *)
(* code does it modulo 2^128 (resp. 2^m_bits).                             *)
(***************************************************************************)
EXTENDS Integers, Sequences, FiniteSets, TLC

VARIABLES
    overlay,        \* which Network class was instantiated: "chord" | "pastry"
    workload,       \* the keys and values the clients of the network use
    nodes,          \* Network.nodes: the set of live node ids (dict keys)
    sorted_ids,     \* ChordNetwork.sorted_ids
    successor,      \* ChordNode.successor, as node id, per live node
    predecessor,    \* ChordNode.predecessor, as node id, per live node
    finger,         \* ChordNode.finger, a sequence of MBits node ids, per live node
    data,           \* ChordNode.data: key_id -> list of values, per live node
    leaf_L,         \* PastryNetwork.leaf_L, the constructor's leaf-set size
    leaf_set,       \* PastryNode.leaf_set.nodes, a list of node ids, per live node
    routing_table,  \* PastryNode.routing_table.table: row -> (col -> node id), per live node
    kv_store,       \* PastryNode.kv_store: key string -> value, per live node
    ret,            \* the last contract call: operation, key, value given or returned, hops;
                    \* for leave also the node id the call was about
    recorded,       \* the observations the last contract call appended to Network.metrics
    in_progress,    \* the frame of a join() or leave() another thread runs: its position and locals
    twin,           \* further Network instances, each with its own rng
    metrics,        \* Metrics.hops of the first such instance: op -> list of hop counts
    calls,          \* history variable: op -> number of calls that returned since the last build
    written         \* history variable of ChordNetwork: the value last written under each key_id

cvars == <<sorted_ids, successor, predecessor, finger, data>>
pvars == <<leaf_set, routing_table, kv_store>>
single == <<overlay, workload, nodes, cvars, leaf_L, pvars, ret, recorded, in_progress, written>>
apart == <<twin, metrics, calls>>
vars == <<single, apart>>

----------------------------------------------------------------------------
(* Bounds of the model *)

MBits == 2
DigitBits == 1
MaxNodes == 4
MinLeafL == 2
MaxVals == 1

----------------------------------------------------------------------------
(* Identifier space: src/common/ids.py *)

MOD == 2 ^ MBits
IDs == 0 .. (MOD - 1)

Keys == {"k1", "k2", "k3"}
Values == {"v1", "v2"}
Null == "null"
NoKey == "-"

(* hash_128: a fixed function from key strings to identifiers.  SHA-1 is   *)
(* not computed; the table has one collision (k1, k2) and one key at the   *)
(* wrap point of the ring.                                                 *)
hash_128(key) ==
    CASE key = "k1" -> 2
      [] key = "k2" -> 2
      [] OTHER      -> MOD - 1

(* The identifier as a list of digits, most significant first: the        *)
(* zero-padded lowercase hex string of the code, with digits of DigitBits  *)
(* bits.  ID_HEX_LEN digits cover the MBits bits of an identifier.         *)
HexBase == 2 ^ DigitBits
ID_HEX_LEN == (MBits + DigitBits - 1) \div DigitBits

hex_digits(x) == [i \in 1 .. ID_HEX_LEN |-> (x \div (HexBase ^ (ID_HEX_LEN - i))) % HexBase]

(* The while loop: the first 0-based position where the digits differ.     *)
RECURSIVE prefix_scan(_, _, _)
prefix_scan(ah, bh, i) ==
    IF i < ID_HEX_LEN /\ ah[i + 1] = bh[i + 1] THEN prefix_scan(ah, bh, i + 1) ELSE i

ring_distance(a, b) ==
    LET d == (a - b) % MOD
        e == (0 - d) % MOD
    IN  IF d <= e THEN d ELSE e

(* The three pure functions of ids.py, tabulated over the identifier space. *)
HexMemo == [x \in IDs |-> hex_digits(x)]
PrefixMemo == [a \in IDs |-> [b \in IDs |-> prefix_scan(HexMemo[a], HexMemo[b], 0)]]
DistMemo == [a \in IDs |-> [b \in IDs |-> ring_distance(a, b)]]

to_hex128(x) == HexMemo[x]
common_prefix_len_hex(a, b) == PrefixMemo[a][b]
circ_dist(a, b) == DistMemo[a][b]

----------------------------------------------------------------------------
(* Python dict helpers *)

EmptyDict == [x \in {} |-> Null]
DictPut(d, k, v) == [x \in (DOMAIN d) \cup {k} |-> IF x = k THEN v ELSE d[x]]
DictPop(d, k) == [x \in (DOMAIN d) \ {k} |-> d[x]]

RECURSIVE SortedSeq(_)
SortedSeq(S) ==
    IF S = {} THEN <<>>
    ELSE LET m == CHOOSE x \in S : \A y \in S : x <= y
         IN  <<m>> \o SortedSeq(S \ {m})

SeqRange(s) == {s[i] : i \in 1 .. Len(s)}
SetMax(S) == CHOOSE x \in S : \A y \in S : y <= x
SetMin(S) == CHOOSE x \in S : \A y \in S : x <= y

(* Iteration orders of a dict of nodes.  Insertion order follows the       *)
(* random generation order of the ids, so any order can occur.  Only the   *)
(* relative order of the nodes that hold a common key changes what a       *)
(* collection yields; the other nodes are put last, in ascending order.    *)
Perms(S) ==
    {o \in [1 .. Cardinality(S) -> S] : \A i, j \in 1 .. Cardinality(S) : o[i] = o[j] => i = j}

Orders(d) ==
    LET shared == {n \in DOMAIN d : \E m \in (DOMAIN d) \ {n} : (DOMAIN d[n]) \cap (DOMAIN d[m]) # {}}
    IN  {o \o SortedSeq((DOMAIN d) \ shared) : o \in Perms(shared)}

----------------------------------------------------------------------------
(* ChordNode: src/chord/chord_node.py *)

(* A faulty variant of in_interval that forgets the wrap of the ring: the   *)
(* interval test of the a < b branch applied to every a, b.                *)
in_interval_no_wrap(x, a, b, inclusive_right) ==
    IF inclusive_right THEN a < x /\ x <= b ELSE a < x /\ x < b

(* A faulty variant of in_interval in which a == b gives the empty         *)
(* interval.                                                               *)
in_interval_empty_when_equal(x, a, b, inclusive_right) ==
    IF a < b
    THEN (IF inclusive_right THEN a < x /\ x <= b ELSE a < x /\ x < b)
    ELSE IF a = b THEN FALSE
    ELSE (IF inclusive_right THEN x > a \/ x <= b ELSE x > a \/ x < b)

in_interval(x, a, b, inclusive_right) ==
    IF a < b
    THEN (IF inclusive_right THEN a < x /\ x <= b ELSE a < x /\ x < b)
    ELSE (IF inclusive_right THEN x > a \/ x <= b ELSE x > a \/ x < b)

(* A faulty variant of closest_preceding_finger that returns the highest   *)
(* finger without the interval test.                                       *)
closest_preceding_finger_untested(self, fing, key) == fing[Len(fing)]

(* fing is the node's finger list; fing[i+1] is finger[i] of the code.     *)
closest_preceding_finger(self, fing, key) ==
    LET hits == {i \in 1 .. Len(fing) : in_interval(fing[i], self, key, FALSE)}
    IN  IF hits = {} THEN self ELSE fing[SetMax(hits)]

(* ChordNode objects on their own (no ChordNetwork around them).  An       *)
(* object is named by its id; rs is the record of the fields of all        *)
(* objects created so far: successor, predecessor (None when unknown),     *)
(* finger and data, each a function of the object.                         *)
(* m_bits of the constructor is RingBits; the ids given to the objects    *)
(* are drawn from RingIDs.                                                 *)
RingBits == 4
RingMod == 2 ^ RingBits
RingIDs == {0, 4, 5, 7, 12}

None == 0 - 1
Diverges == 0 - 2

(* hash_key: SHA-1 of str(key) modulo 2^m, as a fixed table with one       *)
(* collision (k1, k2).                                                     *)
hash_key(key) ==
    CASE key = "k1" -> 0
      [] key = "k2" -> 0
      [] OTHER      -> 2 % RingMod

(* __init__ and join(None): the object is a ring of its own.               *)
constructed(rs, self) ==
    [ successor   |-> DictPut(rs.successor, self, self),
      predecessor |-> DictPut(rs.predecessor, self, self),
      finger      |-> DictPut(rs.finger, self, [i \in 1 .. RingBits |-> self]),
      data        |-> DictPut(rs.data, self, EmptyDict) ]

(* find_predecessor: the while loop, one iteration per unfolding.  The     *)
(* walk is a function of the current node alone, so a node met twice means *)
(* that the loop never ends (Diverges).                                    *)
RECURSIVE find_predecessor_loop(_, _, _, _)
find_predecessor_loop(rs, node, key, visited) ==
    IF in_interval(key, node, rs.successor[node], TRUE) THEN node
    ELSE LET next_node == closest_preceding_finger(node, rs.finger[node], key)
         IN  IF next_node = node THEN node
             ELSE IF next_node \in visited THEN Diverges
             ELSE find_predecessor_loop(rs, next_node, key, visited \cup {next_node})

find_predecessor(rs, self, key) == find_predecessor_loop(rs, self, key, {self})

find_successor(rs, self, key) ==
    LET pred == find_predecessor(rs, self, key)
    IN  IF pred = Diverges THEN Diverges ELSE rs.successor[pred]

(* The nodes find_predecessor walks over, in order, self first; the walk   *)
(* is cut at the first node met twice.                                     *)
RECURSIVE find_predecessor_path(_, _, _)
find_predecessor_path(rs, key, path) ==
    LET node == path[Len(path)]
        next_node == closest_preceding_finger(node, rs.finger[node], key)
    IN  IF in_interval(key, node, rs.successor[node], TRUE) THEN path
        ELSE IF next_node = node THEN path
        ELSE IF next_node \in SeqRange(path) THEN Append(path, next_node)
        ELSE find_predecessor_path(rs, key, Append(path, next_node))

(* lookup_with_hops: the nodes the loop walks over, self first; a step to  *)
(* the successor is taken where closest_preceding_finger returns the node  *)
(* itself.  The walk is cut at the first node met twice.                   *)
RECURSIVE lookup_path(_, _, _)
lookup_path(rs, key, path) ==
    LET node == path[Len(path)]
        next_node == closest_preceding_finger(node, rs.finger[node], key)
        moved == IF next_node = node THEN rs.successor[node] ELSE next_node
    IN  IF in_interval(key, node, rs.successor[node], TRUE) THEN path
        ELSE IF moved \in SeqRange(path) THEN Append(path, moved)
        ELSE lookup_path(rs, key, Append(path, moved))

(* self.lookup_with_hops(key): <<node, hops>>, with Diverges for the node  *)
(* when the loop never returns.                                            *)
lookup_with_hops(rs, self, key) ==
    LET path == lookup_path(rs, key, <<self>>)
        node == path[Len(path)]
    IN  IF in_interval(key, node, rs.successor[node], TRUE)
        THEN <<rs.successor[node], Len(path)>>
        ELSE <<Diverges, Len(path)>>

(* self.notify(node) *)
notify(rs, self, node) ==
    IF rs.predecessor[self] = None \/ in_interval(node, rs.predecessor[self], self, FALSE)
    THEN [rs EXCEPT !.predecessor[self] = node]
    ELSE rs

(* A faulty variant of stabilize that never notifies the successor.        *)
stabilize_without_notify(rs, self) ==
    LET x == rs.predecessor[rs.successor[self]]
    IN  IF x # None /\ in_interval(x, self, rs.successor[self], FALSE)
        THEN [rs EXCEPT !.successor[self] = x]
        ELSE rs

(* self.stabilize() *)
stabilize(rs, self) ==
    LET x == rs.predecessor[rs.successor[self]]
        moved == IF x # None /\ in_interval(x, self, rs.successor[self], FALSE)
                 THEN [rs EXCEPT !.successor[self] = x]
                 ELSE rs
    IN  notify(moved, moved.successor[self], self)

(* self.fix_fingers(): finger[i] is assigned in place, for i = 0 .. m - 1; *)
(* a walk that never ends leaves Diverges in the entry it was computing.   *)
RECURSIVE fix_fingers_from(_, _, _)
fix_fingers_from(rs, self, i) ==
    IF i > RingBits THEN rs
    ELSE LET f == find_successor(rs, self, (self + 2 ^ (i - 1)) % RingMod)
             assigned == [rs EXCEPT !.finger[self][i] = f]
         IN  IF f = Diverges THEN assigned ELSE fix_fingers_from(assigned, self, i + 1)

fix_fingers(rs, self) == fix_fingers_from(rs, self, 1)

(* Lists under the same key_id are merged: the receiver's list first.      *)
merged_into(store, moved) ==
    [k \in (DOMAIN store) \cup (DOMAIN moved) |->
        IF k \notin DOMAIN moved THEN store[k]
        ELSE IF k \in DOMAIN store THEN store[k] \o moved[k]
        ELSE moved[k]]

(* self.acquire_keys_from_successor() *)
acquire_keys_from_successor(rs, self) ==
    LET succ == rs.successor[self]
        pred_id == rs.predecessor[self]
        keys_to_move == {k \in DOMAIN rs.data[succ] :
                            IF pred_id = None THEN k <= self
                            ELSE in_interval(k, pred_id, self, TRUE)}
        moved == [k \in keys_to_move |-> rs.data[succ][k]]
    IN  IF succ = self THEN rs
        ELSE [rs EXCEPT !.data = [@ EXCEPT
                 ![succ] = [k \in (DOMAIN @) \ keys_to_move |-> @[k]],
                 ![self] = merged_into(@, moved)]]

(* self.join(existing_node), existing_node a node of the ring; self is a   *)
(* new object or one that left.                                            *)
join(rs, self, existing_node) ==
    LET made == constructed(rs, self)
        succ == find_successor(made, existing_node, self)
    IN  IF succ = Diverges THEN [made EXCEPT !.successor[self] = Diverges]
        ELSE acquire_keys_from_successor(
                 [made EXCEPT !.predecessor[self] = None, !.successor[self] = succ], self)

(* self.leave(): the assignments in the order of the code.                 *)
leave(rs, self) ==
    LET given == [rs EXCEPT !.data = [@ EXCEPT
                     ![rs.successor[self]] = merged_into(@, rs.data[self])]]
        cleared == [given EXCEPT !.data[self] = EmptyDict]
        linked == IF cleared.predecessor[self] # None
                  THEN [cleared EXCEPT !.successor[cleared.predecessor[self]] =
                                            cleared.successor[self]]
                  ELSE cleared
        back == [linked EXCEPT !.predecessor[linked.successor[self]] =
                                    linked.predecessor[self]]
    IN  [back EXCEPT !.predecessor[self] = self, !.successor[self] = self,
                     !.finger[self] = [i \in 1 .. RingBits |-> self]]

(* put that replaces the list under key_id.                                *)
put_overwrites(rs, self, key, value) ==
    [rs EXCEPT !.data[find_successor(rs, self, hash_key(key))] =
        DictPut(@, hash_key(key), <<value>>)]

(* self.put(key, value) *)
put(rs, self, key, value) ==
    LET key_id == hash_key(key)
        node == find_successor(rs, self, key_id)
    IN  [rs EXCEPT !.data[node] =
            DictPut(@, key_id, (IF key_id \in DOMAIN @ THEN @[key_id] ELSE <<>>) \o <<value>>)]

(* self.get(key): <<found, records>>; the records are no dicts with a      *)
(* title, so the list is returned whole.                                   *)
get(rs, self, key) ==
    LET key_id == hash_key(key)
        node == find_successor(rs, self, key_id)
    IN  IF key_id \in DOMAIN rs.data[node] THEN <<TRUE, rs.data[node][key_id]>>
        ELSE <<FALSE, <<>>>>

----------------------------------------------------------------------------
(* ChordNetwork internals: src/chord/network.py *)

(* bisect_left on a sorted list: the 0-based index of the first element    *)
(* that is >= x, or the length when there is none.                         *)
bisect_left(sids, x) ==
    LET ge == {i \in 1 .. Len(sids) : sids[i] >= x}
    IN  IF ge = {} THEN Len(sids) ELSE SetMin(ge) - 1

(* A faulty variant of _successor_id_of that bisects to the right: the      *)
(* first id > x, so a node whose id is x itself is passed over.            *)
successor_id_of_strict(sids, x) ==
    LET gt == {i \in 1 .. Len(sids) : sids[i] > x}
    IN  IF gt = {} THEN sids[1] ELSE sids[SetMin(gt)]

successor_id_of(sids, x) ==
    LET i == bisect_left(sids, x)
    IN  IF i = Len(sids) THEN sids[1] ELSE sids[i + 1]

(* A faulty variant of _rebuild_ring_and_fingers that takes the            *)
(* predecessor from index idx + 1, as it takes the successor.              *)
rebuild_ring_pred_forward(ns) ==
    LET sids == SortedSeq(ns)
        n == Len(sids)
        idx(nid) == (CHOOSE i \in 1 .. n : sids[i] = nid) - 1
    IN  [ sorted_ids  |-> sids,
          successor   |-> [nid \in ns |-> sids[((idx(nid) + 1) % n) + 1]],
          predecessor |-> [nid \in ns |-> sids[((idx(nid) + 1) % n) + 1]],
          finger      |-> [nid \in ns |->
                              [i \in 1 .. MBits |->
                                  successor_id_of(sids, (nid + 2 ^ (i - 1)) % MOD)]] ]

(* _rebuild_ring_and_fingers, as the record of the fields it assigns.      *)
rebuild_ring_and_fingers(ns) ==
    LET sids == SortedSeq(ns)
        n == Len(sids)
        idx(nid) == (CHOOSE i \in 1 .. n : sids[i] = nid) - 1
    IN  [ sorted_ids  |-> sids,
          successor   |-> [nid \in ns |-> sids[((idx(nid) + 1) % n) + 1]],
          predecessor |-> [nid \in ns |-> sids[((idx(nid) - 1) % n) + 1]],
          finger      |-> [nid \in ns |->
                              [i \in 1 .. MBits |->
                                  successor_id_of(sids, (nid + 2 ^ (i - 1)) % MOD)]] ]

(* The rebuild is a function of the set of live ids alone; it is tabulated  *)
(* once for the node sets the model can reach.                             *)
NodeSets == {ns \in SUBSET IDs : Cardinality(ns) <= MaxNodes}
ChordRebuildMemo == [ns \in NodeSets |-> rebuild_ring_and_fingers(ns)]

(* The structural fields of the current state, as such a record.           *)
ChordStruct ==
    [ sorted_ids |-> sorted_ids, successor |-> successor,
      predecessor |-> predecessor, finger |-> finger ]

(* A faulty variant of the loop whose delivery test leaves the successor   *)
(* out of the interval (inclusive_right = False): a target equal to a node *)
(* id is never delivered, so the loop runs until the hard safety bound.    *)
RECURSIVE chord_route_loop_open_interval(_, _, _, _, _, _)
chord_route_loop_open_interval(st, nn, current, hops, visited, target_id) ==
    LET succ == st.successor[current] IN
    IF succ = current THEN <<current, 0>>
    ELSE IF in_interval(target_id, current, succ, FALSE)
    THEN <<succ, hops + (IF succ # current THEN 1 ELSE 0)>>
    ELSE LET cpf == closest_preceding_finger(current, st.finger[current], target_id)
             nxt == IF cpf = current \/ cpf \in visited THEN succ ELSE cpf
         IN  IF hops + 1 > nn + 5
             THEN <<nxt, hops + 1>>
             ELSE chord_route_loop_open_interval(st, nn, nxt, hops + 1,
                                                 visited \cup {current}, target_id)

(* _route: the while loop, one iteration per unfolding.                    *)
RECURSIVE chord_route_loop(_, _, _, _, _, _)
chord_route_loop(st, nn, current, hops, visited, target_id) ==
    LET succ == st.successor[current] IN
    IF succ = current THEN <<current, 0>>
    ELSE IF in_interval(target_id, current, succ, TRUE)
    THEN <<succ, hops + (IF succ # current THEN 1 ELSE 0)>>
    ELSE LET cpf == closest_preceding_finger(current, st.finger[current], target_id)
             nxt == IF cpf = current \/ cpf \in visited THEN succ ELSE cpf
         IN  IF hops + 1 > nn + 5
             THEN <<nxt, hops + 1>>
             ELSE chord_route_loop(st, nn, nxt, hops + 1, visited \cup {current}, target_id)

(* A faulty variant of _route that answers with the node in front of the   *)
(* responsible one (the node the loop stood on, not its successor).        *)
chord_route_stops_short(st, start_id, target_id) ==
    LET r == chord_route_loop(st, Cardinality(DOMAIN st.successor), start_id, 0, {}, target_id)
    IN  <<st.predecessor[r[1]], r[2]>>

(* A faulty variant of _route that counts the delivery at the destination  *)
(* as one more hop.                                                        *)
chord_route_counts_delivery(st, start_id, target_id) ==
    LET r == chord_route_loop(st, Cardinality(DOMAIN st.successor), start_id, 0, {}, target_id)
    IN  <<r[1], r[2] + 1>>

(* _route(start_id, target_id) = <<destination node id, hops>> on the      *)
(* structure st of a non-empty network.                                    *)
chord_route(st, start_id, target_id) ==
    chord_route_loop(st, Cardinality(DOMAIN st.successor), start_id, 0, {}, target_id)

(* _random_existing_node_id: rng.choice(sorted_ids) *)
chord_random_existing(st) == SeqRange(st.sorted_ids)

(* Step 1 of _rebalance_all_keys / leave: all_data.setdefault(k, []).extend *)
RECURSIVE chord_collect_key(_, _, _, _)
chord_collect_key(d, order, k, i) ==
    IF i > Len(order) THEN <<>>
    ELSE (IF k \in DOMAIN d[order[i]] THEN d[order[i]][k] ELSE <<>>)
         \o chord_collect_key(d, order, k, i + 1)

chord_collect(d, order) ==
    LET ks == UNION {DOMAIN d[n] : n \in DOMAIN d}
    IN  [k \in ks |-> chord_collect_key(d, order, k, 1)]

(* Step 2: route every key_id from a random node and install it at the     *)
(* destination.  The result is the set of possible <<data, migration_hops>>*)
(* over the choices of the random start nodes.                             *)
RECURSIVE chord_reinsert(_, _, _, _)
chord_reinsert(st, todo, all_data, outcomes) ==
    IF todo = {} THEN outcomes
    ELSE LET k == CHOOSE x \in todo : TRUE
             routes == {chord_route(st, s, k) : s \in chord_random_existing(st)}
         IN  chord_reinsert(st, todo \ {k}, all_data,
                 { <<[o[1] EXCEPT ![r[1]] = DictPut(@, k, all_data[k])], o[2] + r[2]>> :
                       o \in outcomes, r \in routes })

(* snapshot_state and count_changed *)
chord_snapshot_state(st) ==
    [nid \in DOMAIN st.successor |->
        <<st.successor[nid], st.predecessor[nid], st.finger[nid]>>]

(* A faulty variant of count_changed that also counts the nodes present in *)
(* one snapshot only (the node that was added or removed).                 *)
count_changed_one_sided(before, after) ==
    Cardinality({nid \in DOMAIN before : nid \in DOMAIN after /\ after[nid] # before[nid]})
    + Cardinality((DOMAIN before \ DOMAIN after) \cup (DOMAIN after \ DOMAIN before))

count_changed(before, after) ==
    Cardinality({nid \in DOMAIN before : nid \in DOMAIN after /\ after[nid] # before[nid]})

----------------------------------------------------------------------------
(* LeafSet: src/pastry/leafset.py *)

(* A faulty variant of the dedup loop that does not drop self.             *)
RECURSIVE leaf_dedup_keeps_self(_, _, _, _)
leaf_dedup_keeps_self(xs, i, self_id, out) ==
    IF i > Len(xs) THEN out
    ELSE leaf_dedup_keeps_self(xs, i + 1, self_id,
                               IF xs[i] \notin SeqRange(out)
                               THEN Append(out, xs[i]) ELSE out)

(* The dedup loop of rebuild: keep x when it is not self and not yet kept. *)
RECURSIVE leaf_dedup(_, _, _, _)
leaf_dedup(xs, i, self_id, out) ==
    IF i > Len(xs) THEN out
    ELSE leaf_dedup(xs, i + 1, self_id,
                    IF xs[i] # self_id /\ xs[i] \notin SeqRange(out)
                    THEN Append(out, xs[i]) ELSE out)

(* A faulty variant of LeafSet.rebuild that does not halve L: it takes L   *)
(* ids on each side and then cuts the list to L.                           *)
leafset_rebuild_unhalved(L, self_id, all_node_ids) ==
    LET ids == SortedSeq(SeqRange(all_node_ids))
        n == Len(ids)
    IN  IF self_id \notin SeqRange(ids) THEN <<>>
        ELSE LET idx == (CHOOSE i \in 1 .. n : ids[i] = self_id) - 1
                 smaller == [k \in 1 .. L |-> ids[((idx - k) % n) + 1]]
                 larger == [k \in 1 .. L |-> ids[((idx + k) % n) + 1]]
                 out == leaf_dedup(smaller \o larger, 1, self_id, <<>>)
             IN  SubSeq(out, 1, IF Len(out) < L THEN Len(out) ELSE L)

(* A faulty variant of rebuild that takes neighbours from the larger side  *)
(* only.                                                                   *)
leafset_rebuild_larger_only(L, self_id, all_node_ids) ==
    LET ids == SortedSeq(SeqRange(all_node_ids))
        n == Len(ids)
    IN  IF self_id \notin SeqRange(ids) THEN <<>>
        ELSE LET idx == (CHOOSE i \in 1 .. n : ids[i] = self_id) - 1
                 half == L \div 2
                 larger == [k \in 1 .. half |-> ids[((idx + k) % n) + 1]]
                 out == leaf_dedup(larger, 1, self_id, <<>>)
             IN  SubSeq(out, 1, IF Len(out) < L THEN Len(out) ELSE L)

leafset_rebuild(L, self_id, all_node_ids) ==
    LET ids == SortedSeq(SeqRange(all_node_ids))
        n == Len(ids)
    IN  IF self_id \notin SeqRange(ids) THEN <<>>
        ELSE LET idx == (CHOOSE i \in 1 .. n : ids[i] = self_id) - 1
                 half == L \div 2
                 smaller == [k \in 1 .. half |-> ids[((idx - k) % n) + 1]]
                 larger == [k \in 1 .. half |-> ids[((idx + k) % n) + 1]]
                 out == leaf_dedup(smaller \o larger, 1, self_id, <<>>)
             IN  SubSeq(out, 1, IF Len(out) < L THEN Len(out) ELSE L)

candidates_with_self(leaves, self_id) == <<self_id>> \o leaves

(* Python's min(cands, key=...): the first element of minimal key. *)
closest_to(leaves, self_id, target_id) ==
    LET cands == candidates_with_self(leaves, self_id)
        best == CHOOSE i \in 1 .. Len(cands) :
                    /\ \A j \in 1 .. Len(cands) :
                          circ_dist(cands[i], target_id) <= circ_dist(cands[j], target_id)
                    /\ \A j \in 1 .. (i - 1) :
                          circ_dist(cands[j], target_id) > circ_dist(cands[i], target_id)
    IN  cands[best]

----------------------------------------------------------------------------
(* RoutingTable: src/pastry/routing_table.py *)

(* rebuild: rows 0 .. ID_HEX_LEN-1, each a dict col -> node id; the first   *)
(* id of all_node_ids that fits a cell keeps it.                           *)
(* A faulty variant of rebuild that ignores the shared prefix: it files    *)
(* every other node in row 0 under the node's first digit.                 *)
routing_table_rebuild_row_zero(self_id, all_node_ids) ==
    LET fits(i, c) == /\ all_node_ids[i] # self_id
                      /\ to_hex128(all_node_ids[i])[1] = c
        cols(row) == IF row # 0 THEN {}
                     ELSE {c \in 0 .. (HexBase - 1) :
                              \E i \in 1 .. Len(all_node_ids) : fits(i, c)}
    IN  [row \in 0 .. (ID_HEX_LEN - 1) |->
            [c \in cols(row) |->
                all_node_ids[SetMin({i \in 1 .. Len(all_node_ids) : fits(i, c)})]]]

routing_table_rebuild(self_id, all_node_ids) ==
    LET self_hex == to_hex128(self_id)
        fits(i, row, col) ==
            /\ all_node_ids[i] # self_id
            /\ prefix_scan(self_hex, to_hex128(all_node_ids[i]), 0) = row
            /\ row < ID_HEX_LEN
            /\ to_hex128(all_node_ids[i])[row + 1] = col
        cols(row) == {c \in 0 .. (HexBase - 1) :
                         \E i \in 1 .. Len(all_node_ids) : fits(i, row, c)}
    IN  [row \in 0 .. (ID_HEX_LEN - 1) |->
            [c \in cols(row) |->
                all_node_ids[SetMin({i \in 1 .. Len(all_node_ids) : fits(i, row, c)})]]]

rt_has_entry(table, row, col) ==
    row >= 0 /\ row < ID_HEX_LEN /\ col \in DOMAIN table[row]

(* list(self.table[row].values()): the cells of a row in insertion order,  *)
(* which is the order of the ids in the sorted list rebuild scanned.       *)
row_candidates(table, row) ==
    IF row < 0 \/ row >= ID_HEX_LEN THEN <<>>
    ELSE SortedSeq({table[row][c] : c \in DOMAIN table[row]})

----------------------------------------------------------------------------
(* PastryNode.next_hop: src/pastry/node.py *)

(* Step 3, the scan of the neighbourhood: <<best, best_d>> after item i.   *)
RECURSIVE fallback_scan(_, _, _, _, _, _, _)
fallback_scan(self_id, target_id, p, neighborhood, visited, i, best) ==
    IF i > Len(neighborhood) THEN best
    ELSE LET nid == neighborhood[i]
             skip == \/ nid = self_id
                     \/ nid \in visited
                     \/ common_prefix_len_hex(self_id, nid) < p
             d == circ_dist(nid, target_id)
         IN  fallback_scan(self_id, target_id, p, neighborhood, visited, i + 1,
                           IF ~skip /\ d < best[2] THEN <<nid, d>> ELSE best)

(* A faulty variant of next_hop whose routing-table step takes the entry   *)
(* without comparing distances.                                            *)
next_hop_untested_entry(self_id, leaves, table, target_id, neighborhood, visited) ==
    LET best_leaf == closest_to(leaves, self_id, target_id)
        p == common_prefix_len_hex(self_id, target_id)
        th == to_hex128(target_id)
        col == th[p + 1]
    IN  IF best_leaf # self_id /\ circ_dist(best_leaf, target_id) < circ_dist(self_id, target_id)
        THEN best_leaf
        ELSE IF /\ p < Len(th)
                /\ rt_has_entry(table, p, col)
                /\ table[p][col] \notin visited
        THEN table[p][col]
        ELSE fallback_scan(self_id, target_id, p, neighborhood, visited, 1,
                           <<self_id, circ_dist(self_id, target_id)>>)[1]

next_hop(self_id, leaves, table, target_id, neighborhood, visited) ==
    LET best_leaf == closest_to(leaves, self_id, target_id)
        p == common_prefix_len_hex(self_id, target_id)
        th == to_hex128(target_id)
        col == th[p + 1]
    IN  IF best_leaf # self_id /\ circ_dist(best_leaf, target_id) < circ_dist(self_id, target_id)
        THEN best_leaf
        ELSE IF /\ p < Len(th)
                /\ rt_has_entry(table, p, col)
                /\ table[p][col] \notin visited
                /\ circ_dist(table[p][col], target_id) < circ_dist(self_id, target_id)
        THEN table[p][col]
        ELSE fallback_scan(self_id, target_id, p, neighborhood, visited, 1,
                           <<self_id, circ_dist(self_id, target_id)>>)[1]

----------------------------------------------------------------------------
(* src/pastry/kv_ops.py, on a node's kv_store *)

(* A faulty variant of insert_at that keeps one slot per key-ID: the put    *)
(* drops every other key of the same hash.                                 *)
insert_at_id_slot(kv, key, value) ==
    DictPut([k \in {x \in DOMAIN kv : hash_128(x) # hash_128(key)} |-> kv[k]], key, value)

insert_at(kv, key, value) == DictPut(kv, key, value)
lookup_at(kv, key) == IF key \in DOMAIN kv THEN kv[key] ELSE Null
update_at(kv, key, value) == DictPut(kv, key, value)
delete_at(kv, key) == DictPop(kv, key)

----------------------------------------------------------------------------
(* PastryNetwork internals: src/pastry/network.py *)

(* _rebuild_structures, as the record of the fields it assigns.            *)
rebuild_structures(L, ns) ==
    LET ids == SortedSeq(ns)
    IN  [ leaf_set      |-> [nid \in ns |-> leafset_rebuild(L, nid, ids)],
          routing_table |-> [nid \in ns |-> routing_table_rebuild(nid, ids)] ]

(* The leaf-set sizes the constructor is given (the default is 16).        *)
LeafLs == MinLeafL .. (MinLeafL + 2)
PastryRebuildMemo ==
    [L \in LeafLs |-> [ns \in NodeSets |-> rebuild_structures(L, ns)]]

PastryStruct == [leaf_set |-> leaf_set, routing_table |-> routing_table]

(* _route: the while loop, one iteration per unfolding; the loop has no    *)
(* hop limit.                                                              *)
RECURSIVE pastry_route_loop(_, _, _, _, _)
pastry_route_loop(st, current, hops, visited0, target_id) ==
    LET visited == visited0 \cup {current}
        p == common_prefix_len_hex(current, target_id)
        neighborhood == candidates_with_self(st.leaf_set[current], current)
                            \o row_candidates(st.routing_table[current], p)
        nxt == next_hop(current, st.leaf_set[current], st.routing_table[current],
                        target_id, neighborhood, visited)
    IN  IF nxt = current THEN <<current, hops>>
        ELSE IF nxt \notin DOMAIN st.leaf_set THEN <<current, hops>>
        ELSE pastry_route_loop(st, nxt, hops + 1, visited, target_id)

pastry_route(st, start_id, target_id) == pastry_route_loop(st, start_id, 0, {}, target_id)

(* _route: the nodes the loop visits, start first; the walk is cut at the  *)
(* first node met twice.                                                   *)
RECURSIVE pastry_route_path(_, _, _)
pastry_route_path(st, target_id, path) ==
    LET current == path[Len(path)]
        p == common_prefix_len_hex(current, target_id)
        neighborhood == candidates_with_self(st.leaf_set[current], current)
                            \o row_candidates(st.routing_table[current], p)
        nxt == next_hop(current, st.leaf_set[current], st.routing_table[current],
                        target_id, neighborhood, SeqRange(path))
    IN  IF nxt = current \/ nxt \notin DOMAIN st.leaf_set THEN path
        ELSE IF nxt \in SeqRange(path) THEN Append(path, nxt)
        ELSE pastry_route_path(st, target_id, Append(path, nxt))

(* Step 1 of _rebalance_all_keys / leave: all_items, the (key, value)      *)
(* pairs of every node, in the iteration order of the nodes.               *)
RECURSIVE dict_items(_)
dict_items(d) ==
    IF DOMAIN d = {} THEN <<>>
    ELSE LET k == CHOOSE x \in DOMAIN d : TRUE
         IN  <<<<k, d[k]>>>> \o dict_items(DictPop(d, k))

RECURSIVE pastry_collect(_, _, _)
pastry_collect(kv, order, i) ==
    IF i > Len(order) THEN <<>>
    ELSE dict_items(kv[order[i]]) \o pastry_collect(kv, order, i + 1)

(* Step 2: route every item from a random node and insert_at the           *)
(* destination: the set of possible <<kv_store, migration_hops>>.          *)
RECURSIVE pastry_reinsert(_, _, _, _)
pastry_reinsert(st, all_items, i, outcomes) ==
    IF i > Len(all_items) THEN outcomes
    ELSE LET key == all_items[i][1]
             value == all_items[i][2]
             routes == {pastry_route(st, s, hash_128(key)) : s \in DOMAIN st.leaf_set}
         IN  pastry_reinsert(st, all_items, i + 1,
                 { <<[o[1] EXCEPT ![r[1]] = insert_at(@, key, value)], o[2] + r[2]>> :
                       o \in outcomes, r \in routes })

(* snapshot_state of src/pastry/join_leave.py: the leaves as a sorted      *)
(* tuple and the (row, col, dest) triples of the table.                    *)
pastry_snapshot_state(st) ==
    [nid \in DOMAIN st.leaf_set |->
        <<SortedSeq(SeqRange(st.leaf_set[nid])), st.routing_table[nid]>>]

----------------------------------------------------------------------------
(* Results and the history variable *)

Ret(op, key, val, hops) == [op |-> op, key |-> key, val |-> val, hops |-> hops, err |-> FALSE]
Raised(op, key) == [op |-> op, key |-> key, val |-> Null, hops |-> 0, err |-> TRUE]

(* The result of leave(node_id), with the node id the call was about.      *)
Left(node_id, hops) ==
    [op |-> "leave", key |-> NoKey, val |-> Null, hops |-> hops, err |-> FALSE,
     node_id |-> node_id]

(* The result of build(n_nodes, seed), with the arguments of the call.     *)
Built(n_nodes, seed) ==
    [op |-> "build", key |-> NoKey, val |-> Null, hops |-> 0, err |-> FALSE,
     n_nodes |-> n_nodes, seed |-> seed]

(* metrics.record(op, hop_count): the observation appended to hops[op].    *)
(* build() replaces the Metrics object and records nothing; a call that    *)
(* raises does so before it records.                                       *)
Observation(op, hop_count) == [op |-> op, hops |-> hop_count]

(* No join() or leave() is running in another thread.                      *)
Idle == [pc |-> "idle"]

(* The program has created one Network only.                               *)
NoTwin == <<>>
Alone == twin = NoTwin /\ metrics = EmptyDict /\ calls = EmptyDict

chord_key_id(key) == hash_128(key) % MOD

NothingWritten == [kid \in {chord_key_id(k) : k \in Keys} |-> Null]

config == <<overlay, workload, leaf_L>>

(* build() on a used network is explored for these node sets only; on a    *)
(* fresh network for every node set.  build() discards all earlier state.  *)
RebuildSets == {ns \in NodeSets : ns \subseteq {0, 2, MOD - 1}}
BuildSets == IF ret.op = "init" THEN NodeSets ELSE RebuildSets

----------------------------------------------------------------------------
(* ChordNetwork contract: src/chord/network.py *)

Workload(ks, vs) == [keys |-> ks, values |-> vs]

(* The state after the constructor, for a client workload wl.              *)
ChordConstructed(wl) ==
    /\ overlay = "chord"
    /\ workload = wl
    /\ leaf_L = MinLeafL
    /\ nodes = {}
    /\ sorted_ids = <<>>
    /\ successor = EmptyDict
    /\ predecessor = EmptyDict
    /\ finger = EmptyDict
    /\ data = EmptyDict
    /\ leaf_set = EmptyDict
    /\ routing_table = EmptyDict
    /\ kv_store = EmptyDict
    /\ ret = Ret("init", NoKey, Null, 0)
    /\ recorded = <<>>
    /\ in_progress = Idle
    /\ written = NothingWritten

ChordInit == Alone /\ ChordConstructed(Workload(Keys, Values))

SetStruct(st) ==
    /\ sorted_ids' = st.sorted_ids
    /\ successor' = st.successor
    /\ predecessor' = st.predecessor
    /\ finger' = st.finger

ChordBuild(ns) ==
    /\ overlay = "chord"
    /\ nodes' = ns
    /\ SetStruct(ChordRebuildMemo[ns])
    /\ data' = [n \in ns |-> EmptyDict]
    /\ ret' = Ret("build", NoKey, Null, 0)
    /\ recorded' = <<>>
    /\ written' = NothingWritten
    /\ UNCHANGED <<config, apart, in_progress, pvars>>

(* A faulty variant in which the call on a network without nodes returns   *)
(* zero hops and records them.                                             *)
ChordRaise_returns(op, key) ==
    /\ overlay = "chord"
    /\ nodes = {}
    /\ ret' = Ret(op, key, Null, 0)
    /\ recorded' = <<Observation(op, 0)>>
    /\ UNCHANGED <<config, apart, in_progress, nodes, cvars, pvars, written>>

(* insert/update/delete/lookup on a network without nodes raise            *)
(* (IndexError from rng.choice or RuntimeError from _route).               *)
ChordRaise(op, key) ==
    /\ overlay = "chord"
    /\ nodes = {}
    /\ ret' = Raised(op, key)
    /\ recorded' = <<>>
    /\ UNCHANGED <<config, apart, in_progress, nodes, cvars, pvars, written>>

ChordInsert(key, value, start) ==
    /\ overlay = "chord"
    /\ nodes # {}
    /\ start \in chord_random_existing(ChordStruct)
    /\ LET key_id == chord_key_id(key)
           r == chord_route(ChordStruct, start, key_id)
       IN  /\ data' = [data EXCEPT ![r[1]] = DictPut(@, key_id, <<value>>)]
           /\ ret' = Ret("insert", key, value, r[2])
           /\ recorded' = <<Observation("insert", r[2])>>
           /\ written' = [written EXCEPT ![key_id] = value]
    /\ UNCHANGED <<config, apart, in_progress, nodes, sorted_ids, successor, predecessor, finger, pvars>>

(* lookup(key) entering at node start: <<value or null, hops>>.            *)
chord_lookup_in(st, d, key, start) ==
    LET key_id == chord_key_id(key)
        r == chord_route(st, start, key_id)
        recs == IF key_id \in DOMAIN d[r[1]] THEN d[r[1]][key_id] ELSE <<>>
    IN  <<IF recs # <<>> THEN recs[1] ELSE Null, r[2]>>

chord_lookup(key, start) == chord_lookup_in(ChordStruct, data, key, start)

ChordLookup(key, start) ==
    /\ overlay = "chord"
    /\ nodes # {}
    /\ start \in chord_random_existing(ChordStruct)
    /\ ret' = Ret("lookup", key, chord_lookup(key, start)[1], chord_lookup(key, start)[2])
    /\ recorded' = <<Observation("lookup", chord_lookup(key, start)[2])>>
    /\ UNCHANGED <<config, apart, in_progress, nodes, cvars, pvars, written>>

ChordUpdate(key, value, start) ==
    /\ overlay = "chord"
    /\ nodes # {}
    /\ start \in chord_random_existing(ChordStruct)
    /\ LET key_id == chord_key_id(key)
           r == chord_route(ChordStruct, start, key_id)
       IN  /\ data' = [data EXCEPT ![r[1]] = DictPut(@, key_id, <<value>>)]
           /\ ret' = Ret("update", key, value, r[2])
           /\ recorded' = <<Observation("update", r[2])>>
           /\ written' = [written EXCEPT ![key_id] = value]
    /\ UNCHANGED <<config, apart, in_progress, nodes, sorted_ids, successor, predecessor, finger, pvars>>

ChordDelete(key, start) ==
    /\ overlay = "chord"
    /\ nodes # {}
    /\ start \in chord_random_existing(ChordStruct)
    /\ LET key_id == chord_key_id(key)
           r == chord_route(ChordStruct, start, key_id)
       IN  /\ data' = [data EXCEPT ![r[1]] = DictPop(@, key_id)]
           /\ ret' = Ret("delete", key, Null, r[2])
           /\ recorded' = <<Observation("delete", r[2])>>
           /\ written' = [written EXCEPT ![key_id] = Null]
    /\ UNCHANGED <<config, apart, in_progress, nodes, sorted_ids, successor, predecessor, finger, pvars>>

(* join() on an empty network *)
ChordJoinEmpty(nid) ==
    /\ overlay = "chord"
    /\ nodes = {}
    /\ nodes' = {nid}
    /\ SetStruct(ChordRebuildMemo[{nid}])
    /\ data' = [n \in {nid} |-> EmptyDict]
    /\ ret' = Ret("join", NoKey, Null, 0)
    /\ recorded' = <<Observation("join", 0)>>
    /\ UNCHANGED <<config, apart, in_progress, pvars, written>>

(* join() on a non-empty network *)
ChordJoin(new_id) ==
    /\ overlay = "chord"
    /\ nodes # {}
    /\ Cardinality(nodes) < MaxNodes
    /\ new_id \notin nodes
    /\ LET before == chord_snapshot_state(ChordStruct)
           route_hops == {chord_route(ChordStruct, bootstrap, new_id)[2] :
                             bootstrap \in chord_random_existing(ChordStruct)}
           ns == nodes \cup {new_id}
           st == ChordRebuildMemo[ns]
           d0 == [n \in ns |-> IF n = new_id THEN EmptyDict ELSE data[n]]
           cleared == [n \in ns |-> EmptyDict]
           update_cost == count_changed(before, chord_snapshot_state(st))
       IN  /\ nodes' = ns
           /\ SetStruct(st)
           /\ \E all_data \in {chord_collect(d0, order) : order \in Orders(d0)} :
              \E res \in {<<o[1], rh + update_cost + o[2]>> :
                              o \in chord_reinsert(st, DOMAIN all_data, all_data, {<<cleared, 0>>}),
                              rh \in route_hops} :
                 /\ data' = res[1]
                 /\ ret' = Ret("join", NoKey, Null, res[2])
                 /\ recorded' = <<Observation("join", res[2])>>
    /\ UNCHANGED <<config, apart, in_progress, pvars, written>>

(* A faulty variant of the early return of leave that rebuilds the ring    *)
(* before it returns.                                                      *)
ChordLeaveNoop_rebuilds(node_id) ==
    /\ overlay = "chord"
    /\ nodes = {} \/ node_id \notin nodes
    /\ SetStruct(ChordRebuildMemo[nodes])
    /\ ret' = Left(node_id, 0)
    /\ recorded' = <<Observation("leave", 0)>>
    /\ UNCHANGED <<config, apart, in_progress, nodes, data, pvars, written>>

(* leave(node_id) on an empty network or with an id that is not live *)
ChordLeaveNoop(node_id) ==
    /\ overlay = "chord"
    /\ nodes = {} \/ node_id \notin nodes
    /\ ret' = Left(node_id, 0)
    /\ recorded' = <<Observation("leave", 0)>>
    /\ UNCHANGED <<config, apart, in_progress, nodes, cvars, pvars, written>>

(* leave(node_id) of a live node; leave() draws node_id with rng.choice.   *)
(* When the last node leaves, nothing is rebuilt or reinserted, and        *)
(* sorted_ids keeps the id of the node that left.                          *)
ChordLeave(node_id) ==
    /\ overlay = "chord"
    /\ node_id \in nodes
    /\ LET before == chord_snapshot_state(ChordStruct)
           ns == nodes \ {node_id}
       IN  /\ nodes' = ns
           /\ IF ns # {}
              THEN LET st == ChordRebuildMemo[ns]
                       cleared == [n \in ns |-> EmptyDict]
                       update_cost == count_changed(before, chord_snapshot_state(st))
                   IN  /\ SetStruct(st)
                       /\ \E all_data \in {chord_collect(data, order) : order \in Orders(data)} :
                          \E o \in chord_reinsert(st, DOMAIN all_data, all_data, {<<cleared, 0>>}) :
                             /\ data' = o[1]
                             /\ ret' = Left(node_id, update_cost + o[2])
                             /\ recorded' = <<Observation("leave", update_cost + o[2])>>
                       /\ written' = written
              ELSE /\ sorted_ids' = sorted_ids
                   /\ successor' = EmptyDict
                   /\ predecessor' = EmptyDict
                   /\ finger' = EmptyDict
                   /\ data' = EmptyDict
                   /\ ret' = Left(node_id, 0)
                   /\ recorded' = <<Observation("leave", 0)>>
                   /\ written' = NothingWritten
    /\ UNCHANGED <<config, apart, in_progress, pvars>>

ChordNext ==
    \/ \E ns \in BuildSets : ChordBuild(ns)
    \/ \E op \in {"insert", "lookup", "update", "delete"}, k \in workload.keys : ChordRaise(op, k)
    \/ \E k \in workload.keys, v \in workload.values, s \in nodes : ChordInsert(k, v, s)
    \/ \E k \in workload.keys, s \in nodes : ChordLookup(k, s)
    \/ \E k \in workload.keys, v \in workload.values, s \in nodes : ChordUpdate(k, v, s)
    \/ \E k \in workload.keys, s \in nodes : ChordDelete(k, s)
    \/ \E nid \in IDs : ChordJoinEmpty(nid)
    \/ \E nid \in IDs \ nodes : ChordJoin(nid)
    \/ \E nid \in IDs : ChordLeaveNoop(nid)
    \/ \E nid \in nodes : ChordLeave(nid)

SpecChord == ChordInit /\ [][ChordNext]_vars

----------------------------------------------------------------------------
(* ChordNetwork called from two threads: one runs join() and leave(), the  *)
(* other insert() and lookup().  self._lock is held only around the blocks *)
(* marked `with self._lock:`, so a join() or leave() is a sequence of      *)
(* steps between which the other thread can run.  Each step below is a     *)
(* stretch of the code that runs without releasing the lock or between two *)
(* lock regions; an insert() or lookup() of the other thread is taken as   *)
(* one step (ChordInsert, ChordLookup).                                    *)

(* The key_ids stored on some node. *)
stored_key_ids == UNION {DOMAIN data[n] : n \in nodes}

(* join(), up to the call of _rebalance_all_keys: snapshot, route from the *)
(* bootstrap node to the new id, add the node, rebuild ring and fingers.   *)
ChordJoinBegin(new_id, bootstrap) ==
    /\ overlay = "chord"
    /\ in_progress = Idle
    /\ nodes # {}
    /\ Cardinality(nodes) < MaxNodes
    /\ new_id \notin nodes
    /\ bootstrap \in chord_random_existing(ChordStruct)
    /\ nodes' = nodes \cup {new_id}
    /\ SetStruct(ChordRebuildMemo[nodes \cup {new_id}])
    /\ data' = [n \in nodes \cup {new_id} |-> IF n = new_id THEN EmptyDict ELSE data[n]]
    /\ in_progress' = [ pc |-> "rebalance", op |-> "join", node_id |-> new_id,
                        before |-> chord_snapshot_state(ChordStruct),
                        hops |-> chord_route(ChordStruct, bootstrap, new_id)[2],
                        all_data |-> EmptyDict, todo |-> {},
                        stored_at_start |-> stored_key_ids ]
    /\ UNCHANGED <<config, apart, pvars, ret, recorded, written>>

(* _rebalance_all_keys, step 1, one lock region: collect every node's data *)
(* and clear every store.                                                  *)
ChordRebalanceCollect ==
    /\ overlay = "chord"
    /\ in_progress.pc = "rebalance"
    /\ \E all_data \in {chord_collect(data, order) : order \in Orders(data)} :
          /\ \A kid \in DOMAIN all_data : Len(all_data[kid]) <= MaxVals
          /\ in_progress' = [in_progress EXCEPT !.pc = "reinsert", !.all_data = all_data,
                                                !.todo = DOMAIN all_data]
    /\ data' = [n \in nodes |-> EmptyDict]
    /\ UNCHANGED <<config, apart, nodes, sorted_ids, successor, predecessor, finger, pvars,
                   ret, recorded, written>>

(* leave(node_id) of a live node, first lock region: collect every node's  *)
(* data.  The network keeps a node after the call.                         *)
ChordLeaveCollect(node_id) ==
    /\ overlay = "chord"
    /\ in_progress = Idle
    /\ node_id \in nodes
    /\ Cardinality(nodes) >= 2
    /\ \E all_data \in {chord_collect(data, order) : order \in Orders(data)} :
          /\ \A kid \in DOMAIN all_data : Len(all_data[kid]) <= MaxVals
          /\ in_progress' = [ pc |-> "collected", op |-> "leave", node_id |-> node_id,
                              before |-> chord_snapshot_state(ChordStruct),
                              hops |-> 0, all_data |-> all_data, todo |-> DOMAIN all_data,
                              stored_at_start |-> stored_key_ids ]
    /\ UNCHANGED <<config, apart, nodes, cvars, pvars, ret, recorded, written>>

(* leave: snapshot, nodes.pop(node_id), rebuild ring and fingers.          *)
ChordLeavePop ==
    /\ overlay = "chord"
    /\ in_progress.pc = "collected"
    /\ nodes' = nodes \ {in_progress.node_id}
    /\ SetStruct(ChordRebuildMemo[nodes \ {in_progress.node_id}])
    /\ data' = [n \in nodes \ {in_progress.node_id} |-> data[n]]
    /\ in_progress' = [in_progress EXCEPT !.pc = "popped",
                                          !.before = chord_snapshot_state(ChordStruct)]
    /\ UNCHANGED <<config, apart, pvars, ret, recorded, written>>

(* leave, second lock region: clear the stores of the remaining nodes.     *)
ChordLeaveClear ==
    /\ overlay = "chord"
    /\ in_progress.pc = "popped"
    /\ data' = [n \in nodes |-> EmptyDict]
    /\ in_progress' = [in_progress EXCEPT !.pc = "reinsert"]
    /\ UNCHANGED <<config, apart, nodes, sorted_ids, successor, predecessor, finger, pvars,
                   ret, recorded, written>>

(* One round of the reinsert loop of join and leave: route key_id from a   *)
(* random node and, in a lock region of its own, install the collected     *)
(* values at the destination.                                              *)
ChordReinsertKey(key_id, start) ==
    /\ overlay = "chord"
    /\ in_progress.pc = "reinsert"
    /\ key_id \in in_progress.todo
    /\ start \in chord_random_existing(ChordStruct)
    /\ LET r == chord_route(ChordStruct, start, key_id)
       IN  /\ data' = [data EXCEPT ![r[1]] = DictPut(@, key_id, in_progress.all_data[key_id])]
           /\ in_progress' = [in_progress EXCEPT !.todo = @ \ {key_id}, !.hops = @ + r[2]]
    /\ UNCHANGED <<config, apart, nodes, sorted_ids, successor, predecessor, finger, pvars,
                   ret, recorded, written>>

(* The end of join and leave: second snapshot, cost, record, return.       *)
ChordRebuildReturn ==
    /\ overlay = "chord"
    /\ in_progress.pc = "reinsert"
    /\ in_progress.todo = {}
    /\ LET total == in_progress.hops
                    + count_changed(in_progress.before, chord_snapshot_state(ChordStruct))
       IN  /\ ret' = IF in_progress.op = "join" THEN Ret("join", NoKey, Null, total)
                     ELSE Left(in_progress.node_id, total)
           /\ recorded' = <<Observation(in_progress.op, total)>>
    /\ in_progress' = Idle
    /\ UNCHANGED <<config, apart, nodes, cvars, pvars, written>>

ChordThreadsInit == Alone /\ ChordConstructed(Workload({"k1", "k3"}, {"v1"}))

ChordThreadsNext ==
    \/ (ret.op = "init" /\ \E ns \in NodeSets : ChordBuild(ns))
    \/ \E k \in workload.keys, v \in workload.values, s \in nodes : ChordInsert(k, v, s)
    \/ \E k \in workload.keys, s \in nodes : ChordLookup(k, s)
    \/ \E nid \in IDs \ nodes, b \in nodes : ChordJoinBegin(nid, b)
    \/ ChordRebalanceCollect
    \/ \E nid \in nodes : ChordLeaveCollect(nid)
    \/ ChordLeavePop
    \/ ChordLeaveClear
    \/ \E kid \in IDs, s \in nodes : ChordReinsertKey(kid, s)
    \/ ChordRebuildReturn

SpecChordThreads == ChordThreadsInit /\ [][ChordThreadsNext]_vars

----------------------------------------------------------------------------
(* PastryNetwork contract: src/pastry/network.py, src/pastry/kv_ops.py *)

PastryConstructed(wl, Ls) ==
    /\ overlay = "pastry"
    /\ workload = wl
    /\ leaf_L \in Ls
    /\ nodes = {}
    /\ sorted_ids = <<>>
    /\ successor = EmptyDict
    /\ predecessor = EmptyDict
    /\ finger = EmptyDict
    /\ data = EmptyDict
    /\ leaf_set = EmptyDict
    /\ routing_table = EmptyDict
    /\ kv_store = EmptyDict
    /\ ret = Ret("init", NoKey, Null, 0)
    /\ recorded = <<>>
    /\ in_progress = Idle
    /\ written = NothingWritten

PastryInit == Alone /\ PastryConstructed(Workload({"k1", "k2"}, Values), {MinLeafL})

SetPastryStruct(st) ==
    /\ leaf_set' = st.leaf_set
    /\ routing_table' = st.routing_table

PastryBuild(ns) ==
    /\ overlay = "pastry"
    /\ nodes' = ns
    /\ SetPastryStruct(PastryRebuildMemo[leaf_L][ns])
    /\ kv_store' = [n \in ns |-> EmptyDict]
    /\ ret' = Ret("build", NoKey, Null, 0)
    /\ recorded' = <<>>
    /\ UNCHANGED <<config, apart, in_progress, cvars, written>>

(* insert/update/delete/lookup on a network without nodes raise            *)
(* (IndexError from rng.choice on an empty list).                          *)
PastryRaise(op, key) ==
    /\ overlay = "pastry"
    /\ nodes = {}
    /\ ret' = Raised(op, key)
    /\ recorded' = <<>>
    /\ UNCHANGED <<config, apart, in_progress, nodes, cvars, pvars, written>>

PastryInsert(key, value, start) ==
    /\ overlay = "pastry"
    /\ start \in nodes
    /\ LET r == pastry_route(PastryStruct, start, hash_128(key))
       IN  /\ kv_store' = [kv_store EXCEPT ![r[1]] = insert_at(@, key, value)]
           /\ ret' = Ret("insert", key, value, r[2])
           /\ recorded' = <<Observation("insert", r[2])>>
    /\ UNCHANGED <<config, apart, in_progress, nodes, cvars, leaf_set, routing_table, written>>

(* lookup(key) entering at node start: <<value or null, hops>>.            *)
pastry_lookup_in(st, kv, key, start) ==
    LET r == pastry_route(st, start, hash_128(key))
    IN  <<lookup_at(kv[r[1]], key), r[2]>>

pastry_lookup(key, start) == pastry_lookup_in(PastryStruct, kv_store, key, start)

PastryLookup(key, start) ==
    /\ overlay = "pastry"
    /\ start \in nodes
    /\ ret' = Ret("lookup", key, pastry_lookup(key, start)[1], pastry_lookup(key, start)[2])
    /\ recorded' = <<Observation("lookup", pastry_lookup(key, start)[2])>>
    /\ UNCHANGED <<config, apart, in_progress, nodes, cvars, pvars, written>>

PastryUpdate(key, value, start) ==
    /\ overlay = "pastry"
    /\ start \in nodes
    /\ LET r == pastry_route(PastryStruct, start, hash_128(key))
       IN  /\ kv_store' = [kv_store EXCEPT ![r[1]] = update_at(@, key, value)]
           /\ ret' = Ret("update", key, value, r[2])
           /\ recorded' = <<Observation("update", r[2])>>
    /\ UNCHANGED <<config, apart, in_progress, nodes, cvars, leaf_set, routing_table, written>>

PastryDelete(key, start) ==
    /\ overlay = "pastry"
    /\ start \in nodes
    /\ LET r == pastry_route(PastryStruct, start, hash_128(key))
       IN  /\ kv_store' = [kv_store EXCEPT ![r[1]] = delete_at(@, key)]
           /\ ret' = Ret("delete", key, Null, r[2])
           /\ recorded' = <<Observation("delete", r[2])>>
    /\ UNCHANGED <<config, apart, in_progress, nodes, cvars, leaf_set, routing_table, written>>

(* join() on an empty network *)
PastryJoinEmpty(nid) ==
    /\ overlay = "pastry"
    /\ nodes = {}
    /\ nodes' = {nid}
    /\ SetPastryStruct(PastryRebuildMemo[leaf_L][{nid}])
    /\ kv_store' = [n \in {nid} |-> EmptyDict]
    /\ ret' = Ret("join", NoKey, Null, 0)
    /\ recorded' = <<Observation("join", 0)>>
    /\ UNCHANGED <<config, apart, in_progress, cvars, written>>

(* join() on a non-empty network *)
PastryJoin(new_id) ==
    /\ overlay = "pastry"
    /\ nodes # {}
    /\ Cardinality(nodes) < MaxNodes
    /\ new_id \notin nodes
    /\ LET before == pastry_snapshot_state(PastryStruct)
           route_hops == {pastry_route(PastryStruct, bootstrap, new_id)[2] : bootstrap \in nodes}
           ns == nodes \cup {new_id}
           st == PastryRebuildMemo[leaf_L][ns]
           kv0 == [n \in ns |-> IF n = new_id THEN EmptyDict ELSE kv_store[n]]
           cleared == [n \in ns |-> EmptyDict]
           update_cost == count_changed(before, pastry_snapshot_state(st))
       IN  /\ nodes' = ns
           /\ SetPastryStruct(st)
           /\ \E all_items \in {pastry_collect(kv0, order, 1) : order \in Orders(kv0)} :
              \E res \in {<<o[1], rh + update_cost + o[2]>> :
                              o \in pastry_reinsert(st, all_items, 1, {<<cleared, 0>>}),
                              rh \in route_hops} :
                 /\ kv_store' = res[1]
                 /\ ret' = Ret("join", NoKey, Null, res[2])
                 /\ recorded' = <<Observation("join", res[2])>>
    /\ UNCHANGED <<config, apart, in_progress, cvars, written>>

(* leave(node_id) on an empty network or with an id that is not live *)
PastryLeaveNoop(node_id) ==
    /\ overlay = "pastry"
    /\ nodes = {} \/ node_id \notin nodes
    /\ ret' = Left(node_id, 0)
    /\ recorded' = <<Observation("leave", 0)>>
    /\ UNCHANGED <<config, apart, in_progress, nodes, cvars, pvars, written>>

(* leave(node_id) of a live node; leave() draws node_id with rng.choice.   *)
(* When the last node leaves, nothing is rebuilt or reinserted.            *)
PastryLeave(node_id) ==
    /\ overlay = "pastry"
    /\ node_id \in nodes
    /\ LET before == pastry_snapshot_state(PastryStruct)
           ns == nodes \ {node_id}
       IN  /\ nodes' = ns
           /\ IF ns # {}
              THEN LET st == PastryRebuildMemo[leaf_L][ns]
                       cleared == [n \in ns |-> EmptyDict]
                       update_cost == count_changed(before, pastry_snapshot_state(st))
                   IN  /\ SetPastryStruct(st)
                       /\ \E all_items \in {pastry_collect(kv_store, order, 1) : order \in Orders(kv_store)} :
                          \E o \in pastry_reinsert(st, all_items, 1, {<<cleared, 0>>}) :
                             /\ kv_store' = o[1]
                             /\ ret' = Left(node_id, update_cost + o[2])
                             /\ recorded' = <<Observation("leave", update_cost + o[2])>>
              ELSE /\ leaf_set' = EmptyDict
                   /\ routing_table' = EmptyDict
                   /\ kv_store' = EmptyDict
                   /\ ret' = Left(node_id, 0)
                   /\ recorded' = <<Observation("leave", 0)>>
    /\ UNCHANGED <<config, apart, in_progress, cvars, written>>

PastryNext ==
    \/ \E ns \in BuildSets : PastryBuild(ns)
    \/ \E op \in {"insert", "lookup", "update", "delete"}, k \in workload.keys : PastryRaise(op, k)
    \/ \E k \in workload.keys, v \in workload.values, s \in nodes : PastryInsert(k, v, s)
    \/ \E k \in workload.keys, s \in nodes : PastryLookup(k, s)
    \/ \E k \in workload.keys, v \in workload.values, s \in nodes : PastryUpdate(k, v, s)
    \/ \E k \in workload.keys, s \in nodes : PastryDelete(k, s)
    \/ \E nid \in IDs : PastryJoinEmpty(nid)
    \/ \E nid \in IDs \ nodes : PastryJoin(nid)
    \/ \E nid \in IDs : PastryLeaveNoop(nid)
    \/ \E nid \in nodes : PastryLeave(nid)

SpecPastry == PastryInit /\ [][PastryNext]_vars

(* PastryNetwork constructed with each of the leaf-set sizes LeafLs, used  *)
(* by clients with one key.                                                *)
PastryLeafInit == Alone /\ PastryConstructed(Workload({"k1"}, {"v1"}), LeafLs)
SpecPastryLeaf == PastryLeafInit /\ [][PastryNext]_vars

----------------------------------------------------------------------------
(* Both overlays behind the common Network contract *)

Init == (Alone /\ ChordConstructed(Workload({"k1", "k2"}, Values))) \/ PastryInit
Next == ChordNext \/ PastryNext
Spec == Init /\ [][Next]_vars

----------------------------------------------------------------------------
(* Two Network instances with their own random.Random.  Here every random  *)
(* choice of a handler is drawn from the instance's rng, in the order the  *)
(* code draws, and the order of the nodes dict is kept, so that a call is  *)
(* a function of the instance and its arguments.  The generator is a small *)
(* linear congruential one standing for random.Random: a state, a step,    *)
(* and the top bits of the new state as output.  The instances use one     *)
(* key.                                                                    *)

Seeds == {0, 1}
RngStates == 4 * MOD

seeded(seed) == seed % RngStates
rng_step(x) == (5 * x + 3) % RngStates

(* rng.getrandbits(m_bits) and rng.choice(seq): <<value, next rng state>> *)
getrandbits(x) == <<rng_step(x) \div 4, rng_step(x)>>
rng_choice(x, seq) == <<seq[((rng_step(x) \div 4) % Len(seq)) + 1], rng_step(x)>>

(* Draw ids until the list got has n distinct ones (the loops of build and *)
(* join): <<list, next rng state>>.                                        *)
RECURSIVE fresh_ids(_, _, _)
fresh_ids(x, got, n) ==
    IF Len(got) >= n THEN <<got, x>>
    ELSE LET g == getrandbits(x)
         IN  fresh_ids(g[2], IF g[1] \in SeqRange(got) THEN got ELSE Append(got, g[1]), n)

(* An instance is a record; inst.overlay is its class and inst.leaf_L its  *)
(* leaf-set size.  _rebuild, snapshot_state and _route of the instance:    *)
rebuilt_struct(inst, ns) ==
    IF inst.overlay = "chord" THEN ChordRebuildMemo[ns]
    ELSE PastryRebuildMemo[inst.leaf_L][ns]
inst_snapshot(inst, st) ==
    IF inst.overlay = "chord" THEN chord_snapshot_state(st) ELSE pastry_snapshot_state(st)
inst_route(inst, s, t) ==
    IF inst.overlay = "chord" THEN chord_route(inst.st, s, t)
    ELSE pastry_route(inst.st, s, t)

(* The list _random_existing_node_id chooses from. *)
start_ids(inst) == IF inst.overlay = "chord" THEN inst.st.sorted_ids ELSE inst.order

(* A Network after __init__: rng = random.Random(0). *)
NewInstance(ov, L) ==
    [ overlay |-> ov, leaf_L |-> L, nodes |-> {}, order |-> <<>>,
      st |-> IF ov = "chord" THEN ChordRebuildMemo[{}] ELSE PastryRebuildMemo[L][{}],
      store |-> EmptyDict,
      rng |-> seeded(0), ret |-> Ret("init", NoKey, Null, 0), recorded |-> <<>> ]

(* A faulty variant of build without self.nodes.clear().                   *)
seeded_build_keeps_nodes(inst, n, seed) ==
    LET f == fresh_ids(seeded(seed), inst.order, n)
        ns == SeqRange(f[1])
    IN  [inst EXCEPT !.nodes = ns, !.order = f[1], !.st = rebuilt_struct(inst, ns),
                     !.store = [x \in ns |-> IF x \in inst.nodes THEN inst.store[x]
                                             ELSE EmptyDict],
                     !.rng = f[2], !.ret = Built(n, seed), !.recorded = <<>>]

(* A faulty variant of build that keeps the rng of the instance.           *)
seeded_build_keeps_rng(inst, n, seed) ==
    LET f == fresh_ids(inst.rng, <<>>, n)
        ns == SeqRange(f[1])
    IN  [inst EXCEPT !.nodes = ns, !.order = f[1], !.st = rebuilt_struct(inst, ns),
                     !.store = [x \in ns |-> EmptyDict], !.rng = f[2],
                     !.ret = Built(n, seed), !.recorded = <<>>]

(* build(n, seed) *)
seeded_build(inst, n, seed) ==
    LET f == fresh_ids(seeded(seed), <<>>, n)
        ns == SeqRange(f[1])
    IN  [inst EXCEPT !.nodes = ns, !.order = f[1], !.st = rebuilt_struct(inst, ns),
                     !.store = [x \in ns |-> EmptyDict], !.rng = f[2],
                     !.ret = Built(n, seed), !.recorded = <<>>]

(* insert, lookup, update, delete on a network with nodes. *)
seeded_data_op(inst, op, key, value) ==
    LET c == rng_choice(inst.rng, start_ids(inst))
        r == inst_route(inst, c[1], IF inst.overlay = "chord" THEN chord_key_id(key)
                                       ELSE hash_128(key))
        kv == inst.store[r[1]]
        found == IF inst.overlay = "chord"
                 THEN (IF chord_key_id(key) \in DOMAIN kv /\ kv[chord_key_id(key)] # <<>>
                       THEN kv[chord_key_id(key)][1] ELSE Null)
                 ELSE lookup_at(kv, key)
        stored == IF inst.overlay = "chord" THEN DictPut(kv, chord_key_id(key), <<value>>)
                  ELSE IF op = "insert" THEN insert_at(kv, key, value)
                  ELSE update_at(kv, key, value)
        popped == IF inst.overlay = "chord" THEN DictPop(kv, chord_key_id(key))
                  ELSE delete_at(kv, key)
    IN  [inst EXCEPT
            !.rng = c[2],
            !.store = [@ EXCEPT ![r[1]] = IF op \in {"insert", "update"} THEN stored
                                          ELSE IF op = "delete" THEN popped ELSE kv],
            !.ret = Ret(op, key, IF op = "lookup" THEN found
                                 ELSE IF op = "delete" THEN Null ELSE value, r[2]),
            !.recorded = <<Observation(op, r[2])>>]

(* The entries join and leave collect, in the order of the nodes dict:     *)
(* <<slot, values>> per key_id in Chord, <<key, value>> per item in Pastry.*)
collected_items(inst) ==
    IF inst.overlay = "chord" THEN dict_items(chord_collect(inst.store, inst.order))
    ELSE pastry_collect(inst.store, inst.order, 1)

(* The reinsert loop on the instance inst, whose stores were cleared:      *)
(* <<instance, migration_hops>>.                                           *)
RECURSIVE seeded_reinsert(_, _, _, _)
seeded_reinsert(inst, items, i, hops) ==
    IF i > Len(items) THEN <<inst, hops>>
    ELSE LET c == rng_choice(inst.rng, start_ids(inst))
             r == inst_route(inst, c[1], IF inst.overlay = "chord" THEN items[i][1]
                                            ELSE hash_128(items[i][1]))
         IN  seeded_reinsert(
                 [inst EXCEPT !.rng = c[2],
                              !.store = [@ EXCEPT ![r[1]] = DictPut(@, items[i][1], items[i][2])]],
                 items, i + 1, hops + r[2])

(* join() *)
seeded_join(inst) ==
    IF inst.nodes = {}
    THEN LET g == getrandbits(inst.rng)
         IN  [inst EXCEPT !.nodes = {g[1]}, !.order = <<g[1]>>,
                          !.st = rebuilt_struct(inst, {g[1]}),
                          !.store = [x \in {g[1]} |-> EmptyDict], !.rng = g[2],
                          !.ret = Ret("join", NoKey, Null, 0),
                          !.recorded = <<Observation("join", 0)>>]
    ELSE LET before == inst_snapshot(inst, inst.st)
             f == fresh_ids(inst.rng, inst.order, Len(inst.order) + 1)
             new_id == f[1][Len(f[1])]
             c == rng_choice(f[2], start_ids(inst))
             route_hops == inst_route(inst, c[1], new_id)[2]
             ns == inst.nodes \cup {new_id}
             st == rebuilt_struct(inst, ns)
             o == seeded_reinsert([inst EXCEPT !.nodes = ns, !.order = f[1], !.st = st,
                                               !.store = [x \in ns |-> EmptyDict],
                                               !.rng = c[2]],
                                  collected_items(inst), 1, 0)
             total == route_hops + count_changed(before, inst_snapshot(inst, st)) + o[2]
         IN  [o[1] EXCEPT !.ret = Ret("join", NoKey, Null, total),
                          !.recorded = <<Observation("join", total)>>]

(* leave() when random, leave(node_id) otherwise *)
seeded_leave(inst, random, node_id) ==
    LET done(i, total) == [i EXCEPT !.ret = Ret("leave", NoKey, Null, total),
                                    !.recorded = <<Observation("leave", total)>>]
    IN  IF inst.nodes = {} THEN done(inst, 0)
        ELSE LET c == IF random THEN rng_choice(inst.rng, start_ids(inst))
                      ELSE <<node_id, inst.rng>>
                 drawn == [inst EXCEPT !.rng = c[2]]
             IN  IF c[1] \notin inst.nodes THEN done(drawn, 0)
                 ELSE LET before == inst_snapshot(inst, inst.st)
                          ns == inst.nodes \ {c[1]}
                          order == SelectSeq(inst.order, LAMBDA x : x # c[1])
                      IN  IF ns = {}
                          THEN done([drawn EXCEPT
                                       !.nodes = {}, !.order = <<>>, !.store = EmptyDict,
                                       !.st = IF inst.overlay = "chord"
                                              THEN [ sorted_ids |-> inst.st.sorted_ids,
                                                     successor |-> EmptyDict,
                                                     predecessor |-> EmptyDict,
                                                     finger |-> EmptyDict ]
                                              ELSE [ leaf_set |-> EmptyDict,
                                                     routing_table |-> EmptyDict ]], 0)
                          ELSE LET st == rebuilt_struct(inst, ns)
                                   o == seeded_reinsert(
                                            [drawn EXCEPT !.nodes = ns, !.order = order,
                                                          !.st = st,
                                                          !.store = [x \in ns |-> EmptyDict]],
                                            collected_items(inst), 1, 0)
                               IN  done(o[1], count_changed(before, inst_snapshot(inst, st)) + o[2])

(* The calls an instance can be given next, and their effect.              *)
TwinKey == "k1"

(* build(n_nodes, seed) is called with n_nodes up to the size of the ID    *)
(* space (a larger n_nodes never leaves the while loop).                   *)
MaxBuild == IF MaxNodes <= MOD THEN MaxNodes ELSE MOD
TwinValues == {"v1"}
calls_of(inst) ==
    {[op |-> "build", n |-> n, seed |-> s] : n \in 0 .. MaxBuild, s \in Seeds}
    \cup {[op |-> o, value |-> v] : o \in (IF inst.nodes = {} THEN {} ELSE {"insert", "update"}),
                                   v \in TwinValues}
    \cup {[op |-> o] : o \in (IF inst.nodes = {} THEN {} ELSE {"lookup", "delete"})}
    \cup {[op |-> o] : o \in (IF Cardinality(inst.nodes) < MaxNodes THEN {"join"} ELSE {})}
    \cup {[op |-> "leave", random |-> TRUE, node_id |-> 0]}
    \cup {[op |-> "leave", random |-> FALSE, node_id |-> n] : n \in IDs}

apply_call(inst, call) ==
    CASE call.op = "build" -> seeded_build(inst, call.n, call.seed)
      [] call.op \in {"insert", "update"} -> seeded_data_op(inst, call.op, TwinKey, call.value)
      [] call.op \in {"lookup", "delete"} -> seeded_data_op(inst, call.op, TwinKey, Null)
      [] call.op = "join" -> seeded_join(inst)
      [] call.op = "leave" -> seeded_leave(inst, call.random, call.node_id)

(* The first instance is new; the second may have been used already (it   *)
(* was built, joined and written to).  The first call both are given is a  *)
(* build with the same n and seed, and from then on both are given the     *)
(* same calls.                                                             *)
TwinInit ==
    /\ ChordConstructed(Workload({TwinKey}, TwinValues))
          \/ PastryConstructed(Workload({TwinKey}, TwinValues), {MinLeafL})
    /\ twin = <<NewInstance(overlay, leaf_L), NewInstance(overlay, leaf_L)>>
    /\ metrics = EmptyDict
    /\ calls = EmptyDict

(* One call, given to the instances in called: to the second instance     *)
(* alone before the common build, to both from the common build on.        *)
TwinCall(call, called) ==
    /\ \A i \in called : call \in calls_of(twin[i])
    /\ IF twin[1].ret.op = "init"
       THEN \/ called = {2} /\ call.op \in {"build", "join", "insert"}
            \/ called = {1, 2} /\ call.op = "build"
       ELSE called = {1, 2} /\ call.op # "build"
    /\ twin' = [i \in 1 .. 2 |-> IF i \in called THEN apply_call(twin[i], call) ELSE twin[i]]
    /\ UNCHANGED <<single, metrics, calls>>

TwinNext ==
    \E called \in {{2}, {1, 2}} : \E call \in calls_of(twin[2]) : TwinCall(call, called)

SpecTwin == TwinInit /\ [][TwinNext]_vars

----------------------------------------------------------------------------
(* ChordNode objects and run_periodic_maintenance: src/chord/chord_node.py, *)
(* src/chord/chord_simulator.py, driven as in tests/test_chord_smoke.py.    *)
(* nodes is the caller's list of live nodes; successor, predecessor,        *)
(* finger and data are the fields of every ChordNode object created, the    *)
(* ones that left included; written[key_id] is the list of values put;      *)
(* calls.round counts the maintenance rounds completed since the last join  *)
(* or leave, up to MaintRounds; calls.changes is 0 until a node joins or    *)
(* leaves, 2 when the last join or leave was a leave() on a settled ring in *)
(* which every get returned the records put and nothing was put since, and  *)
(* 1 otherwise; ret is the last call.                                       *)

MaintRounds == 3

RingStruct ==
    [ successor |-> successor, predecessor |-> predecessor,
      finger |-> finger, data |-> data ]

SetRing(rs) ==
    /\ successor' = rs.successor
    /\ predecessor' = rs.predecessor
    /\ finger' = rs.finger
    /\ data' = rs.data

(* The result of a call on a node: join and leave name the node, get       *)
(* returns <<found, records>>.                                             *)
Called(op, node_id, key, found, records) ==
    [op |-> op, key |-> key, val |-> records, hops |-> 0, err |-> FALSE,
     node_id |-> node_id, found |-> found]

RoundsSince(n, changes) == [round |-> n, changes |-> changes]

(* n0 = ChordNode(first_id, m); n0.join(None)                              *)
RingConstructed(first_id, load) ==
    /\ overlay = "ring"
    /\ workload = load
    /\ leaf_L = MinLeafL
    /\ nodes = {first_id}
    /\ sorted_ids = <<>>
    /\ \E made \in {constructed([successor |-> EmptyDict, predecessor |-> EmptyDict,
                                 finger |-> EmptyDict, data |-> EmptyDict], first_id)} :
          /\ successor = made.successor
          /\ predecessor = made.predecessor
          /\ finger = made.finger
          /\ data = made.data
    /\ leaf_set = EmptyDict
    /\ routing_table = EmptyDict
    /\ kv_store = EmptyDict
    /\ ret = Ret("init", NoKey, Null, 0)
    /\ recorded = <<>>
    /\ in_progress = Idle
    /\ twin = NoTwin
    /\ metrics = EmptyDict
    /\ calls = RoundsSince(MaintRounds, 0)
    /\ written = [kid \in {hash_key(k) : k \in load.keys} |-> <<>>]

RingInit == \E first_id \in RingIDs : RingConstructed(first_id, Workload({"k1", "k2"}, Values))

ring_frame == <<config, twin, metrics, sorted_ids, pvars, recorded>>

(* The objects a live node refers to.                                      *)
referenced ==
    UNION {{successor[n], predecessor[n]} \cup SeqRange(finger[n]) : n \in nodes}

(* n = ChordNode(new_id, m); n.join(existing_node); nodes.append(n).  The  *)
(* new object takes the place of one of the same id that left, so that id  *)
(* is free only once no live node refers to the old object.                *)
RingJoin(new_id, existing_node) ==
    /\ overlay = "ring"
    /\ Cardinality(nodes) < MaxNodes
    /\ new_id \in RingIDs \ (nodes \cup referenced)
    /\ existing_node \in nodes
    /\ \E after \in {join(RingStruct, new_id, existing_node)} :
          /\ after.successor[new_id] # Diverges
          /\ SetRing(after)
    /\ nodes' = nodes \cup {new_id}
    /\ ret' = Called("join", new_id, NoKey, FALSE, <<>>)
    /\ calls' = RoundsSince(0, 1)
    /\ UNCHANGED <<ring_frame, in_progress, written>>

(* The ring is settled: MaintRounds rounds were completed since the last   *)
(* join or leave.                                                          *)
settled == calls.round >= MaintRounds

(* get(key) at every live node returns the records put, for every key put. *)
retrievable ==
    \A n \in nodes : \A key \in workload.keys :
        written[hash_key(key)] # <<>> =>
            /\ find_successor(RingStruct, n, hash_key(key)) # Diverges
            /\ get(RingStruct, n, key) = <<TRUE, written[hash_key(key)]>>

(* leaving.leave(); nodes.remove(leaving)                                  *)
RingLeave(leaving) ==
    /\ overlay = "ring"
    /\ leaving \in nodes
    /\ SetRing(leave(RingStruct, leaving))
    /\ nodes' = nodes \ {leaving}
    /\ ret' = Called("leave", leaving, NoKey, FALSE, <<>>)
    /\ calls' = RoundsSince(0, IF settled /\ retrievable THEN 2 ELSE 1)
    /\ UNCHANGED <<ring_frame, in_progress, written>>

(* The values put, in the order in which they are put.                     *)
RingValues == <<"v1", "v2">>

ring_puts == UNION {SeqRange(written[kid]) : kid \in DOMAIN written}

(* ingress.put(key, value), with the next value of RingValues              *)
RingPut(ingress, key, value) ==
    /\ overlay = "ring"
    /\ ingress \in nodes
    /\ Cardinality(ring_puts) < Len(RingValues)
    /\ value = RingValues[Cardinality(ring_puts) + 1]
    /\ find_successor(RingStruct, ingress, hash_key(key)) # Diverges
    /\ SetRing(put(RingStruct, ingress, key, value))
    /\ ret' = Called("put", None, key, TRUE, <<value>>)
    /\ written' = [written EXCEPT ![hash_key(key)] = Append(@, value)]
    /\ calls' = RoundsSince(calls.round, IF calls.changes = 0 THEN 0 ELSE 1)
    /\ UNCHANGED <<ring_frame, in_progress, nodes>>

(* ingress.get(key)                                                        *)
RingGet(ingress, key) ==
    /\ overlay = "ring"
    /\ ingress \in nodes
    /\ find_successor(RingStruct, ingress, hash_key(key)) # Diverges
    /\ \E got \in {get(RingStruct, ingress, key)} :
          ret' = Called("get", None, key, got[1], got[2])
    /\ UNCHANGED <<ring_frame, in_progress, nodes, cvars, calls, written>>

(* run_periodic_maintenance(nodes, rounds = 1): the three loops of one     *)
(* round over order, the shuffled copy of nodes.  A fix_fingers that never *)
(* returns (hung) ends the evaluation.                                     *)
hung(rs) == \E n \in DOMAIN rs.finger : Diverges \in SeqRange(rs.finger[n])

RECURSIVE round_loop(_, _, _, _)
round_loop(rs, order, loop, i) ==
    IF hung(rs) \/ i > Len(order) THEN rs
    ELSE round_loop(CASE loop = "stabilize" -> stabilize(rs, order[i])
                      [] loop = "fix_fingers" -> fix_fingers(rs, order[i])
                      [] loop = "acquire" -> acquire_keys_from_successor(rs, order[i]),
                    order, loop, i + 1)

run_periodic_maintenance(rs, order) ==
    round_loop(round_loop(round_loop(rs, order, "stabilize", 1),
                          order, "fix_fingers", 1),
               order, "acquire", 1)

Maintenance(order) ==
    /\ overlay = "ring"
    /\ order \in Perms(nodes)
    /\ \E after \in {run_periodic_maintenance(RingStruct, order)} :
          /\ ~hung(after)
          /\ SetRing(after)
    /\ ret' = Called("maintenance", None, NoKey, FALSE, <<>>)
    /\ calls' = IF calls.round < MaintRounds THEN RoundsSince(calls.round + 1, calls.changes)
                                         ELSE calls
    /\ UNCHANGED <<ring_frame, in_progress, nodes, written>>

RingCalls ==
    \/ \E ingress \in nodes, key \in workload.keys, value \in workload.values :
          RingPut(ingress, key, value)
    \/ \E order \in Perms(nodes) : Maintenance(order)

(* Every join and leave is followed by MaintRounds rounds or more.         *)
RingNext ==
    \/ settled /\ \E new_id \in RingIDs, existing_node \in nodes : RingJoin(new_id, existing_node)
    \/ settled /\ \E leaving \in nodes : RingLeave(leaving)
    \/ RingCalls

SpecRing == RingInit /\ [][RingNext]_vars

(* join, leave, put, get and rounds in any order, with one key, ids from   *)
(* RingAnyIDs and up to MaxRingAny live nodes.                             *)
MaxRingAny == MaxNodes - 1
RingAnyIDs == RingIDs \ {SetMax(RingIDs)}

RingAnyInit == \E first_id \in RingAnyIDs : RingConstructed(first_id, Workload({"k1"}, {"v1"}))

RingAnyNext ==
    \/ /\ Cardinality(nodes) < MaxRingAny
       /\ \E new_id \in RingAnyIDs, existing_node \in nodes : RingJoin(new_id, existing_node)
    \/ \E leaving \in nodes : RingLeave(leaving)
    \/ \E ingress \in nodes, key \in workload.keys : RingGet(ingress, key)
    \/ RingCalls

SpecRingAny == RingAnyInit /\ [][RingAnyNext]_vars

(* The methods of a node called one at a time, in any order, on any live   *)
(* node: the states of a ring between and inside maintenance rounds.       *)
(* notify is the call stabilize makes.                                     *)
NodeCall(op, self, after) ==
    /\ overlay = "ring"
    /\ self \in nodes
    /\ ~hung(after)
    /\ SetRing(after)
    /\ ret' = Called(op, self, NoKey, FALSE, <<>>)
    /\ UNCHANGED <<ring_frame, in_progress, nodes, calls, written>>

NodeStabilize(self) == NodeCall("stabilize", self, stabilize(RingStruct, self))

NodeFixFingers(self) == NodeCall("fix_fingers", self, fix_fingers(RingStruct, self))

NodeAcquire(self) ==
    NodeCall("acquire_keys_from_successor", self, acquire_keys_from_successor(RingStruct, self))

(* ingress.lookup_with_hops(key_id)                                        *)
NodeLookup(ingress, key_id) ==
    /\ overlay = "ring"
    /\ ingress \in nodes
    /\ \E found \in {lookup_with_hops(RingStruct, ingress, key_id)} :
          /\ found[1] # Diverges
          /\ ret' = [Called("lookup_with_hops", found[1], NoKey, TRUE, <<>>)
                        EXCEPT !.hops = found[2]]
    /\ UNCHANGED <<ring_frame, in_progress, nodes, cvars, calls, written>>

(* The ids of the nodes whose methods are called one at a time.            *)
NodeIDs == {0, 4, 12}

NodeInit == \E first_id \in NodeIDs : RingConstructed(first_id, Workload({"k1"}, {"v1"}))

NodeNext ==
    \/ \E new_id \in NodeIDs, existing_node \in nodes : RingJoin(new_id, existing_node)
    \/ \E leaving \in nodes : RingLeave(leaving)
    \/ \E ingress \in nodes, key \in workload.keys, value \in workload.values :
          RingPut(ingress, key, value)
    \/ \E self \in nodes : NodeStabilize(self)
    \/ \E self \in nodes : NodeFixFingers(self)
    \/ \E self \in nodes : NodeAcquire(self)
    \/ \E ingress \in nodes, key \in Keys : NodeLookup(ingress, hash_key(key))

SpecNode == NodeInit /\ [][NodeNext]_vars

----------------------------------------------------------------------------
(* ChordNode.in_interval called on its own *)

Tested(x, a, b, inclusive_right) ==
    [op |-> "in_interval", key |-> NoKey, hops |-> 0, err |-> FALSE,
     x |-> x, a |-> a, b |-> b, inclusive_right |-> inclusive_right,
     val |-> in_interval(x, a, b, inclusive_right)]

InIntervalCall(x, a, b, inclusive_right) ==
    /\ ret' = Tested(x, a, b, inclusive_right)
    /\ UNCHANGED <<config, apart, in_progress, nodes, cvars, pvars, recorded, written>>

IntervalNext ==
    \E x \in IDs, a \in IDs, b \in IDs, inclusive_right \in BOOLEAN :
        InIntervalCall(x, a, b, inclusive_right)

SpecInterval == ChordInit /\ [][IntervalNext]_vars

----------------------------------------------------------------------------
(* Metrics: src/common/metrics.py, as the Network instances use it *)

(* A faulty variant of record that keeps the last observation only.       *)
metrics_record_overwrites(hops, op, hop_count) == DictPut(hops, op, <<hop_count>>)

(* record(op, hop_count): hops is a defaultdict(list).                     *)
metrics_record(hops, op, hop_count) ==
    DictPut(hops, op, (IF op \in DOMAIN hops THEN hops[op] ELSE <<>>) \o <<hop_count>>)

(* sorted(values) *)
RECURSIVE sorted(_)
sorted(values) ==
    IF values = <<>> THEN <<>>
    ELSE LET m == SetMin(SeqRange(values))
             i == CHOOSE j \in 1 .. Len(values) : values[j] = m
         IN  <<m>> \o sorted(SubSeq(values, 1, i - 1) \o SubSeq(values, i + 1, Len(values)))

RECURSIVE seq_sum(_)
seq_sum(values) == IF values = <<>> THEN 0 ELSE values[1] + seq_sum(Tail(values))

(* summary(): per op with observations, count, median and p95 as the code  *)
(* indexes them (0-based n // 2 and int(0.95 * (n - 1))); the mean is kept *)
(* as the sum it divides by count.                                         *)
summary(hops) ==
    [op \in {o \in DOMAIN hops : hops[o] # <<>>} |->
        LET values_sorted == sorted(hops[op])
            n == Len(values_sorted)
        IN  [ count |-> n,
              sum |-> seq_sum(values_sorted),
              median |-> values_sorted[(n \div 2) + 1],
              p95 |-> values_sorted[((95 * (n - 1)) \div 100) + 1] ]]

(* The observations of a call, appended in order.                          *)
RECURSIVE record_all(_, _)
record_all(hops, observations) ==
    IF observations = <<>> THEN hops
    ELSE record_all(metrics_record(hops, observations[1].op, observations[1].hops),
                    Tail(observations))

(* One Network instance and its Metrics, over a bounded number of          *)
(* observations; build replaces the Metrics object.                        *)
MaxObs == MaxNodes - 1
RECURSIVE observed_in(_, _)
observed_in(hops, ops) ==
    IF ops = {} THEN 0
    ELSE LET o == CHOOSE x \in ops : TRUE
         IN  Len(hops[o]) + observed_in(hops, ops \ {o})
observed(hops) == observed_in(hops, DOMAIN hops)

MetricsInit ==
    /\ ChordConstructed(Workload({TwinKey}, TwinValues))
          \/ PastryConstructed(Workload({TwinKey}, TwinValues), {MinLeafL})
    /\ twin = <<NewInstance(overlay, leaf_L)>>
    /\ metrics = EmptyDict
    /\ calls = EmptyDict

MetricsCall(call) ==
    /\ call \in calls_of(twin[1])
    /\ call.op = "build" \/ observed(metrics) < MaxObs
    /\ \E after \in {apply_call(twin[1], call)} :
          /\ twin' = <<after>>
          /\ metrics' = IF call.op = "build" THEN EmptyDict
                        ELSE record_all(metrics, after.recorded)
          /\ calls' = IF call.op = "build" THEN EmptyDict
                      ELSE DictPut(calls, call.op,
                                   (IF call.op \in DOMAIN calls THEN calls[call.op] ELSE 0) + 1)
    /\ UNCHANGED single

MetricsNext == \E call \in calls_of(twin[1]) : MetricsCall(call)

SpecMetrics == MetricsInit /\ [][MetricsNext]_vars

----------------------------------------------------------------------------
(* A batch of lookups submitted to a thread pool:                          *)
(* src/experiments/run_experiments.py                                      *)

(* The number of lookups of a batch and the keys they are about.           *)
BatchK == 2
BatchKeys == {"k1", "k3"}

(* What lookup reads in the store of node dest for key.                    *)
stored_value(inst, dest, key) ==
    LET kv == inst.store[dest]
    IN  IF inst.overlay = "chord"
        THEN (IF chord_key_id(key) \in DOMAIN kv /\ kv[chord_key_id(key)] # <<>>
              THEN kv[chord_key_id(key)][1] ELSE Null)
        ELSE lookup_at(kv, key)

(* The values net.lookup(t) returns for t in keys, called one after the    *)
(* other on the instance inst.                                             *)
RECURSIVE lookups_in_turn(_, _, _, _)
lookups_in_turn(inst, keys, i, vals) ==
    IF i > Len(keys) THEN vals
    ELSE LET after == seeded_data_op(inst, "lookup", keys[i], Null)
         IN  lookups_in_turn(after, keys, i + 1, Append(vals, after.ret.val))

NoBatch == [phase |-> "calls"]

BatchInit ==
    /\ ChordConstructed(Workload({TwinKey}, TwinValues))
          \/ PastryConstructed(Workload({TwinKey}, TwinValues), {MinLeafL})
    /\ twin = <<NewInstance(overlay, leaf_L)>>
    /\ metrics = EmptyDict
    /\ calls = NoBatch

(* The calls of the driver's thread before the batch: the network is      *)
(* built, written to and changed by leaves.                                *)
batch_calls(inst) == {call \in calls_of(inst) : call.op \in {"build", "insert", "leave"}}

BatchCall(call) ==
    /\ calls = NoBatch
    /\ call \in batch_calls(twin[1])
    /\ call.op = "build" \/ observed(metrics) < MaxObs
    /\ \E after \in {apply_call(twin[1], call)} :
          /\ twin' = <<after>>
          /\ metrics' = IF call.op = "build" THEN EmptyDict
                        ELSE record_all(metrics, after.recorded)
    /\ UNCHANGED <<single, calls>>

(* futs = [ex.submit(net.lookup, t) for t in titles_k]: one thread per     *)
(* key, each at the first line of lookup.  The record keeps the instance   *)
(* and the observations as they were at the submit, and the values the     *)
(* same lookups return when called in turn.                                *)
BatchSubmit(keys) ==
    /\ calls = NoBatch
    /\ twin[1].nodes # {}
    /\ calls' = [ phase |-> "batch", keys |-> keys,
                  pc |-> [i \in 1 .. Len(keys) |-> "draw"],
                  start |-> [i \in 1 .. Len(keys) |-> 0],
                  dest |-> [i \in 1 .. Len(keys) |-> 0],
                  val |-> [i \in 1 .. Len(keys) |-> Null],
                  hops |-> [i \in 1 .. Len(keys) |-> 0],
                  in_turn |-> lookups_in_turn(twin[1], keys, 1, <<>>),
                  submitted |-> twin[1],
                  observed |-> metrics ]
    /\ UNCHANGED <<single, twin, metrics>>

(* start = self._random_existing_node_id() *)
ThreadDraw(i) ==
    /\ calls.phase = "batch"
    /\ i \in DOMAIN calls.pc
    /\ calls.pc[i] = "draw"
    /\ LET c == rng_choice(twin[1].rng, start_ids(twin[1]))
       IN  /\ twin' = <<[twin[1] EXCEPT !.rng = c[2]]>>
           /\ calls' = [calls EXCEPT !.start[i] = c[1], !.pc[i] = "route"]
    /\ UNCHANGED <<single, metrics>>

(* dest, hops = self._route(start, key_id); PastryNetwork then reads       *)
(* lookup_at(self.nodes[dest], key).                                       *)
ThreadRoute(i) ==
    /\ calls.phase = "batch"
    /\ i \in DOMAIN calls.pc
    /\ calls.pc[i] = "route"
    /\ LET key == calls.keys[i]
           r == inst_route(twin[1], calls.start[i],
                           IF twin[1].overlay = "chord" THEN chord_key_id(key)
                           ELSE hash_128(key))
       IN  calls' = [calls EXCEPT
                        !.dest[i] = r[1], !.hops[i] = r[2],
                        !.val[i] = IF twin[1].overlay = "chord" THEN @
                                   ELSE stored_value(twin[1], r[1], key),
                        !.pc[i] = "record"]
    /\ UNCHANGED <<single, twin, metrics>>

(* ChordNetwork: with self._lock, the read of dest.data and                *)
(* metrics.record("lookup", hops); PastryNetwork: metrics.record alone.    *)
ThreadRecord(i) ==
    /\ calls.phase = "batch"
    /\ i \in DOMAIN calls.pc
    /\ calls.pc[i] = "record"
    /\ calls' = [calls EXCEPT
                    !.val[i] = IF twin[1].overlay = "chord"
                               THEN stored_value(twin[1], calls.dest[i], calls.keys[i])
                               ELSE @,
                    !.pc[i] = "done"]
    /\ metrics' = metrics_record(metrics, "lookup", calls.hops[i])
    /\ UNCHANGED <<single, twin>>

BatchNext ==
    \/ \E call \in batch_calls(twin[1]) : BatchCall(call)
    \/ \E keys \in [1 .. BatchK -> BatchKeys] : BatchSubmit(keys)
    \/ \E i \in 1 .. BatchK : ThreadDraw(i)
    \/ \E i \in 1 .. BatchK : ThreadRoute(i)
    \/ \E i \in 1 .. BatchK : ThreadRecord(i)

SpecBatch == BatchInit /\ [][BatchNext]_vars

----------------------------------------------------------------------------
(* Properties of the ChordNetwork contract *)

(* C1: ChordNetwork is a map keyed by key-ID.  On every network with at    *)
(* least one node, for every key k and every start node, lookup(k) returns *)
(* the value of the most recent insert or update under the key-ID of k     *)
(* (update creates a missing key), and null when nothing was written under *)
(* that key-ID or a delete came after the last write; calls under other    *)
(* key-IDs in between do not change the answer.                            *)
C1_ChordMapByKeyId ==
    (overlay = "chord" /\ nodes # {}) =>
        \A k \in workload.keys, s \in chord_random_existing(ChordStruct) :
            chord_lookup(k, s)[1] = written[chord_key_id(k)]

(* A lookup that was forwarded at least twice returns a written value in a *)
(* network of three or more nodes that also holds a second key-ID.         *)
C1_Witness ==
    /\ overlay = "chord"
    /\ Cardinality(nodes) >= 3
    /\ ret.op = "lookup"
    /\ ret.hops >= 2
    /\ ret.val = "v2"
    /\ ret.val = written[chord_key_id(ret.key)]
    /\ \E k \in workload.keys :
          chord_key_id(k) # chord_key_id(ret.key) /\ written[chord_key_id(k)] = "v1"

(* The ring successor of h: the first live node id >= h, wrapping to the   *)
(* smallest live id.                                                       *)
ring_successor(h) ==
    IF \E n \in nodes : n >= h THEN SetMin({n \in nodes : n >= h}) ELSE SetMin(nodes)

(* C4: ChordNetwork key placement.  After every contract call, every       *)
(* key-ID h found in a node's store is found in the store of one node      *)
(* only, and that node is the ring successor of h.                         *)
C4_ChordKeyPlacement ==
    overlay = "chord" =>
        \A n \in nodes : \A h \in DOMAIN data[n] :
            /\ n = ring_successor(h)
            /\ \A m \in nodes : h \in DOMAIN data[m] => m = n

(* After a join or leave, three or more nodes hold two key-IDs, one of     *)
(* them past the largest live id and so stored at the smallest.            *)
C4_Witness ==
    /\ overlay = "chord"
    /\ ret.op \in {"join", "leave"}
    /\ Cardinality(nodes) >= 3
    /\ \E n \in nodes : \E h \in DOMAIN data[n] :
          /\ h > SetMax(nodes)
          /\ n = SetMin(nodes)
          /\ \E m \in nodes \ {n} : data[m] # EmptyDict

(* The node reached from n after i steps along the pointer map f.         *)
RECURSIVE follow(_, _, _)
follow(f, n, i) == IF i = 0 THEN n ELSE f[follow(f, n, i - 1)]

(* C8: ChordNetwork ring closure.  After every contract call on a          *)
(* non-empty network, every live node has a live successor and             *)
(* predecessor; from any live node the successor chain visits every live   *)
(* node exactly once and then is back at the start; the predecessor chain  *)
(* visits the same nodes in the reverse order; and                         *)
(* n.successor.predecessor = n for every live node n.                      *)
C8_ChordRingClosure ==
    (overlay = "chord" /\ nodes # {}) =>
        LET N == Cardinality(nodes) IN
        /\ DOMAIN successor = nodes /\ DOMAIN predecessor = nodes
        /\ \A n \in nodes :
              /\ {follow(successor, n, i) : i \in 0 .. (N - 1)} = nodes
              /\ follow(successor, n, N) = n
              /\ \A i \in 0 .. N : follow(predecessor, n, i) = follow(successor, n, N - i)
              /\ predecessor[successor[n]] = n

(* A ring of three or more nodes resulting from a leave, where the         *)
(* successor of a node is not its predecessor.                             *)
C8_Witness ==
    /\ overlay = "chord"
    /\ ret.op = "leave"
    /\ Cardinality(nodes) >= 3
    /\ \E n \in nodes : successor[n] # predecessor[n] /\ successor[n] < n

(* C9: ChordNetwork finger correctness.  After every contract call, every  *)
(* live node n has m fingers, finger[i] for i in [0, m) is the live node   *)
(* that is the ring successor of (n + 2^i) mod 2^m, and finger[0] is       *)
(* n.successor.                                                            *)
C9_ChordFingers ==
    overlay = "chord" =>
        /\ DOMAIN finger = nodes
        /\ \A n \in nodes :
              /\ Len(finger[n]) = MBits
              /\ \A i \in 0 .. (MBits - 1) :
                    /\ finger[n][i + 1] \in nodes
                    /\ finger[n][i + 1] = ring_successor((n + 2 ^ i) % MOD)
              /\ finger[n][1] = successor[n]

(* After a join, in a ring of three or more nodes, one finger points at    *)
(* the node whose id is exactly (n + 2^i) mod 2^m, another wraps past 0,   *)
(* and a node has two different fingers.                                   *)
C9_Witness ==
    /\ overlay = "chord"
    /\ ret.op = "join"
    /\ Cardinality(nodes) >= 3
    /\ \E n \in nodes, i \in 0 .. (MBits - 1) : finger[n][i + 1] = (n + 2 ^ i) % MOD
    /\ \E n \in nodes, i \in 0 .. (MBits - 1) :
          finger[n][i + 1] < n /\ finger[n][i + 1] # (n + 2 ^ i) % MOD
    /\ \E n \in nodes : finger[n][1] # finger[n][MBits]

----------------------------------------------------------------------------
(* Properties of the PastryNetwork contract *)

(* C2: PastryNetwork is a map keyed by the key string.  On every network   *)
(* with at least one node, whatever the set of node ids: right after       *)
(* insert(k, v) or update(k, v), lookup(k) returns v from every start      *)
(* node, and right after delete(k), lookup(k) returns null from every      *)
(* start node.                                                             *)
C2_PastryMapByKey ==
    (overlay = "pastry" /\ nodes # {}) =>
        /\ ret.op \in {"insert", "update"} =>
               \A s \in nodes : pastry_lookup(ret.key, s)[1] = ret.val
        /\ ret.op = "delete" =>
               \A s \in nodes : pastry_lookup(ret.key, s)[1] = Null

(* C5: PastryNetwork key placement.  After every contract call, every      *)
(* stored key k is in the store of one node only, that node is strictly    *)
(* closer to hash(k) in circular distance than every other live node, and  *)
(* routing towards hash(k) ends at the same node from every start node.    *)
C5_PastryKeyPlacement ==
    overlay = "pastry" =>
        /\ \A n \in nodes : \A k \in DOMAIN kv_store[n] :
              /\ \A m \in nodes \ {n} :
                    circ_dist(n, hash_128(k)) < circ_dist(m, hash_128(k))
              /\ \A m \in nodes : k \in DOMAIN kv_store[m] => m = n
        /\ \A k \in workload.keys : \A s, t \in nodes :
              pastry_route(PastryStruct, s, hash_128(k))[1]
                  = pastry_route(PastryStruct, t, hash_128(k))[1]

(* The rank of live node x from node n: the number of live nodes on the    *)
(* clockwise (ascending id) arc from n, n excluded, up to and including    *)
(* x; and the same counter-clockwise.                                      *)
cw_rank(n, x) == Cardinality({y \in nodes : (y - n) % MOD \in 1 .. ((x - n) % MOD)})
ccw_rank(n, x) == Cardinality({y \in nodes : (n - y) % MOD \in 1 .. ((n - x) % MOD)})

(* C10: PastryNetwork leaf set by ring rank.  After every contract call,   *)
(* the leaf set of each live node n holds exactly the live nodes other     *)
(* than n that are among the L/2 (rounded down) nearest clockwise or the   *)
(* L/2 nearest counter-clockwise in the sorted ring of live ids, each      *)
(* once; for even L its size is min(L, |nodes| - 1).                       *)
C10_PastryLeafSetByRank ==
    overlay = "pastry" =>
        /\ DOMAIN leaf_set = nodes
        /\ \A n \in nodes :
              /\ SeqRange(leaf_set[n]) =
                     {x \in nodes \ {n} : \/ cw_rank(n, x) <= leaf_L \div 2
                                         \/ ccw_rank(n, x) <= leaf_L \div 2}
              /\ Cardinality(SeqRange(leaf_set[n])) = Len(leaf_set[n])
              /\ n \notin SeqRange(leaf_set[n])
              /\ leaf_L % 2 = 0 =>
                     Len(leaf_set[n]) = IF leaf_L < Cardinality(nodes) - 1
                                        THEN leaf_L ELSE Cardinality(nodes) - 1

(* After a join with L = MinLeafL: a live node that is in no leaf set of   *)
(* some other node, which has its L leaves, one on each side across the    *)
(* wrap of the ring.                                                       *)
C10_Witness ==
    /\ overlay = "pastry"
    /\ ret.op = "join"
    /\ leaf_L = MinLeafL
    /\ \E n \in nodes :
          /\ Len(leaf_set[n]) = leaf_L
          /\ SeqRange(leaf_set[n]) # nodes \ {n}
          /\ \E x \in SeqRange(leaf_set[n]) : x > n /\ ccw_rank(n, x) <= leaf_L \div 2

(* C11 as stated: after every contract call each node's leaf set is the L  *)
(* live node ids of smallest circular distance to the node (all other      *)
(* nodes when fewer than L exist): it has min(L, |nodes| - 1) members and  *)
(* no live node outside it is strictly closer to the node than a member.   *)
C11_LeafSetClosestByDistance ==
    overlay = "pastry" =>
        \A n \in nodes :
            LET others == nodes \ {n}
                leaves == SeqRange(leaf_set[n])
            IN  /\ leaves \subseteq others
                /\ Cardinality(leaves) =
                       IF leaf_L < Cardinality(others) THEN leaf_L ELSE Cardinality(others)
                /\ \A x \in leaves, y \in others \ leaves :
                       circ_dist(y, n) >= circ_dist(x, n)

(* The live nodes other than n that have fewer than k live nodes before    *)
(* them going clockwise from n (ascending ids), resp. counter-clockwise.   *)
nearest_cw(n, k) ==
    {x \in nodes \ {n} :
        Cardinality({y \in nodes \ {n} : (y - n) % MOD < (x - n) % MOD}) < k}
nearest_ccw(n, k) ==
    {x \in nodes \ {n} :
        Cardinality({y \in nodes \ {n} : (n - y) % MOD < (n - x) % MOD}) < k}

(* C11, amended: the leaf set is closest per side, not overall.  After     *)
(* every contract call the leaf set of each live node n is the L/2         *)
(* (rounded down) nearest live nodes clockwise together with the L/2       *)
(* nearest counter-clockwise; every live node outside it is strictly       *)
(* farther from n in circular distance than all the members of one of the  *)
(* two sides (it may be closer than members of the other side).            *)
C11_LeafSetClosestPerSide ==
    overlay = "pastry" =>
        \A n \in nodes :
            LET leaves == SeqRange(leaf_set[n])
                cw == nearest_cw(n, leaf_L \div 2)
                ccw == nearest_ccw(n, leaf_L \div 2)
            IN  /\ leaves = cw \cup ccw
                /\ \A y \in nodes \ (leaves \cup {n}) :
                      \/ \A x \in cw : circ_dist(x, n) < circ_dist(y, n)
                      \/ \A x \in ccw : circ_dist(x, n) < circ_dist(y, n)

(* After an insert on four or more nodes with L = MinLeafL, a node has a   *)
(* full leaf set and a live node outside it, farther than every leaf.      *)
C11_Witness ==
    /\ overlay = "pastry"
    /\ ret.op = "insert"
    /\ leaf_L = MinLeafL
    /\ \E n \in nodes :
          /\ Len(leaf_set[n]) = leaf_L
          /\ \E y \in nodes \ (SeqRange(leaf_set[n]) \cup {n}) :
                \A x \in SeqRange(leaf_set[n]) : circ_dist(x, n) < circ_dist(y, n)

(* C12: Pastry routing-table prefix discipline.  After every contract call *)
(* every non-empty cell (r, c) of every live node's routing table holds a  *)
(* live node id, different from the owner, whose hex form agrees with the  *)
(* owner's in exactly the first r digits and whose digit at position r     *)
(* (counted from 0) is c.                                                  *)
C12_RoutingTablePrefix ==
    overlay = "pastry" =>
        \A n \in nodes :
            \A r \in DOMAIN routing_table[n] :
                \A c \in DOMAIN routing_table[n][r] :
                    LET e == routing_table[n][r][c]
                        nh == hex_digits(n)
                        eh == hex_digits(e)
                    IN  /\ e \in nodes
                        /\ e # n
                        /\ \A i \in 1 .. r : eh[i] = nh[i]
                        /\ eh[r + 1] # nh[r + 1]
                        /\ eh[r + 1] = c

(* After a join or a leave, some live node has a filled cell in row 0 and  *)
(* a filled cell in a deeper row.                                          *)
C12_Witness ==
    /\ overlay = "pastry"
    /\ ret.op \in {"join", "leave"}
    /\ \E n \in nodes :
          /\ DOMAIN routing_table[n][0] # {}
          /\ \E r \in 1 .. (ID_HEX_LEN - 1) : DOMAIN routing_table[n][r] # {}

----------------------------------------------------------------------------
(* Properties of both overlays *)

(* The multiset of stored entries over all nodes: each (key, value) pair   *)
(* with the number of nodes that hold it.  The key is the key-ID and the   *)
(* value the list of records in ChordNetwork; the key string and its value *)
(* in PastryNetwork.                                                       *)
chord_entries == UNION {{<<k, data[n][k]>> : k \in DOMAIN data[n]} : n \in nodes}
pastry_entries == UNION {{<<k, kv_store[n][k]>> : k \in DOMAIN kv_store[n]} : n \in nodes}

StoredBag ==
    IF overlay = "chord"
    THEN [e \in chord_entries |->
             Cardinality({n \in nodes : e[1] \in DOMAIN data[n] /\ data[n][e[1]] = e[2]})]
    ELSE [e \in pastry_entries |->
             Cardinality({n \in nodes : e[1] \in DOMAIN kv_store[n] /\ kv_store[n][e[1]] = e[2]})]

(* C3: in both overlays every join() and every leave(), at any node count  *)
(* including a network of one node, leaves the multiset of stored keys     *)
(* with their values over all nodes as it was before the call.             *)
C3_JoinLeavePreserveStored ==
    [][ret'.op \in {"join", "leave"} => StoredBag' = StoredBag]_vars

(* The routing structures and the stores of the network, as one value; a   *)
(* property of a call reads the network before it and the network after it.*)
network ==
    [ nodes |-> nodes, chord |-> ChordStruct, data |-> data,
      pastry |-> PastryStruct, kv_store |-> kv_store ]

(* On a network net: the nodes that hold an entry for key k, and           *)
(* lookup(k) entering at node s.                                           *)
holders(net, k) ==
    IF overlay = "chord"
    THEN {n \in net.nodes : chord_key_id(k) \in DOMAIN net.data[n]}
    ELSE {n \in net.nodes : k \in DOMAIN net.kv_store[n]}

lookup_value(net, k, s) ==
    IF overlay = "chord"
    THEN chord_lookup_in(net.chord, net.data, k, s)[1]
    ELSE pastry_lookup_in(net.pastry, net.kv_store, k, s)[1]

(* C6: idempotent insert in both overlays.  When insert(k, v) is called    *)
(* twice in a row on a non-empty network, with any two start nodes, then   *)
(* after the second call exactly one node holds an entry for k, the entry  *)
(* is the single value v, and lookup(k) returns v from every start node.   *)
C6_IdempotentInsert ==
    [][\A k \in {ret.key}, v \in {ret.val}, after \in {network'} :
          (/\ ret = Ret("insert", k, v, ret.hops)
           /\ ret' = Ret("insert", k, v, ret'.hops))
          => (/\ Cardinality(holders(after, k)) = 1
              /\ overlay = "chord" =>
                     \A n \in holders(after, k) : after.data[n][chord_key_id(k)] = <<v>>
              /\ \A s \in after.nodes : lookup_value(after, k, s) = v)]_vars

(* Two inserts in a row, insert(k1, v1) then insert(k2, v2), of distinct   *)
(* keys with the same key-ID.                                              *)
colliding_inserts(k1, v1, k2, v2) ==
    /\ ret = Ret("insert", k1, v1, ret.hops)
    /\ ret' = Ret("insert", k2, v2, ret'.hops)
    /\ k1 # k2
    /\ hash_128(k1) = hash_128(k2)

(* The values stored under the key-ID of key k over all nodes of net, each *)
(* with its node (and in PastryNetwork its key string).                    *)
stored_under_id(net, k) ==
    IF overlay = "chord"
    THEN {<<n, chord_key_id(k), net.data[n][chord_key_id(k)]>> :
              n \in {m \in net.nodes : chord_key_id(k) \in DOMAIN net.data[m]}}
    ELSE UNION {{<<n, x, net.kv_store[n][x]>> :
                    x \in {y \in DOMAIN net.kv_store[n] : hash_128(y) = hash_128(k)}} :
                n \in net.nodes}

(* C7 as stated: in both overlays, after insert(k1, v1) then               *)
(* insert(k2, v2) with k1 # k2 of the same key-ID, exactly one value is    *)
(* stored for that key-ID, and lookup(k1) and lookup(k2) both return v2.   *)
C7_OverwriteOnCollision ==
    [][\A k1 \in {ret.key}, v1 \in {ret.val}, k2 \in {ret'.key}, v2 \in {ret'.val},
         after \in {network'} :
          colliding_inserts(k1, v1, k2, v2) =>
              /\ Cardinality(stored_under_id(after, k1)) = 1
              /\ \A s \in after.nodes : lookup_value(after, k1, s) = v2
              /\ \A s \in after.nodes : lookup_value(after, k2, s) = v2]_vars

(* C7, amended: the overwrite on a hash collision is ChordNetwork's alone. *)
(* After insert(k1, v1) then insert(k2, v2) with k1 # k2 of the same       *)
(* key-ID: in ChordNetwork one node holds the key-ID, with the single      *)
(* value v2, and lookup(k1) and lookup(k2) return v2 from every start      *)
(* node; in PastryNetwork, whose stores are keyed by the key string, the   *)
(* second insert changes no entry of k1: k1 -> v1 and k2 -> v2 are both    *)
(* stored, and lookup(k1) returns from every start node what it returned   *)
(* before the second insert.                                               *)
C7_OverwriteInChordOnly ==
    [][\A k1 \in {ret.key}, v1 \in {ret.val}, k2 \in {ret'.key}, v2 \in {ret'.val},
         before \in {network}, after \in {network'} :
          colliding_inserts(k1, v1, k2, v2) =>
              IF overlay = "chord"
              THEN /\ stored_under_id(after, k1) =
                          {<<ring_successor(chord_key_id(k1)), chord_key_id(k1), <<v2>> >>}
                   /\ \A s \in after.nodes : lookup_value(after, k1, s) = v2
                   /\ \A s \in after.nodes : lookup_value(after, k2, s) = v2
              ELSE /\ \A n \in after.nodes :
                         lookup_at(after.kv_store[n], k1) = lookup_at(before.kv_store[n], k1)
                   /\ \E n \in after.nodes : lookup_at(after.kv_store[n], k1) = v1
                   /\ \E n \in after.nodes : lookup_at(after.kv_store[n], k2) = v2
                   /\ \A s \in after.nodes :
                         lookup_value(after, k1, s) = lookup_value(before, k1, s)]_vars

(* In a PastryNetwork of two or more nodes, right after insert(k2, v2),    *)
(* one node holds k1 -> v1 and k2 -> v2, two keys of the same key-ID.      *)
C7_Witness ==
    /\ overlay = "pastry"
    /\ Cardinality(nodes) >= 2
    /\ ret.op = "insert" /\ ret.key = "k2" /\ ret.val = "v2"
    /\ hash_128("k1") = hash_128("k2")
    /\ \E n \in nodes :
          lookup_at(kv_store[n], "k1") = "v1" /\ lookup_at(kv_store[n], "k2") = "v2"


(* The hop count _route(s, t) returns on the network net.                  *)
route_hops(net, s, t) ==
    IF overlay = "chord" THEN chord_route(net.chord, s, t)[2]
    ELSE pastry_route(net.pastry, s, t)[2]

DataOps == {"insert", "lookup", "update", "delete"}

(* C13: hop bound.  In every topology reachable through build, join and    *)
(* leave, the route from every live start node to every target id takes a  *)
(* number of hops h with 0 <= h <= |nodes| + 5 (this covers the bootstrap  *)
(* route of join, run on the topology before the call, and the per-key     *)
(* routes of join and leave, run on the topology after it), and every hop  *)
(* count an insert, lookup, update or delete returned is within the bound. *)
C13_HopBound ==
    /\ \A s \in nodes, t \in IDs :
          route_hops(network, s, t) \in 0 .. (Cardinality(nodes) + 5)
    /\ (ret.op \in DataOps /\ ~ret.err) =>
          ret.hops \in 0 .. (Cardinality(nodes) + 5)

(* A data operation on three or more nodes that took two hops.             *)
C13_Witness ==
    /\ ret.op \in DataOps
    /\ ~ret.err
    /\ ret.hops >= 2
    /\ Cardinality(nodes) >= 3
    /\ \E s \in nodes, t \in IDs : route_hops(network, s, t) = 2


(* The hops an insert, lookup, update or delete of key k reports on the    *)
(* network net when it enters at node s: all four route from s to the      *)
(* key's id and return the hops of that route.                             *)
op_hops(net, k, s) ==
    IF overlay = "chord" THEN chord_route(net.chord, s, chord_key_id(k))[2]
    ELSE pastry_route(net.pastry, s, hash_128(k))[2]

(* The start node s is itself responsible for key k: the ring successor    *)
(* of the key's id in Chord, a minimiser of the circular distance to the   *)
(* key's id in Pastry.                                                     *)
is_responsible(s, k) ==
    IF overlay = "chord" THEN s = ring_successor(chord_key_id(k))
    ELSE \A n \in nodes : circ_dist(s, hash_128(k)) <= circ_dist(n, hash_128(k))

(* C14: same-node delivery is not a hop.  Whenever the start node of an    *)
(* insert, lookup, update or delete is itself the responsible node, the    *)
(* operation reports 0 hops, for any number of live nodes.                 *)
C14_SameNodeDeliveryZeroHops ==
    \A k \in Keys, s \in nodes :
        is_responsible(s, k) => op_hops(network, k, s) = 0


(* C15: empty and one-node boundary, both overlays.  A join() on a network *)
(* without nodes (never built, built with N = 0, or emptied by leave)      *)
(* yields exactly one node, returns 0 and records one 'join' observation   *)
(* of 0.  In a network of one node every insert, lookup, update and delete *)
(* is applied at that node and reports 0 hops: afterwards the node set is  *)
(* the same, an inserted or updated key is held by that node with the      *)
(* value given, a deleted key is held by no node, and a lookup returns     *)
(* what that node holds for the key.                                       *)
C15_EmptyAndOneNodeBoundary ==
    [][ /\ (nodes = {} /\ ret'.op = "join") =>
              /\ Cardinality(nodes') = 1
              /\ ret' = Ret("join", NoKey, Null, 0)
              /\ recorded' = <<Observation("join", 0)>>
        /\ (Cardinality(nodes) = 1 /\ ret'.op \in DataOps) =>
              \A n \in nodes, after \in {network'}, k \in {ret'.key}, v \in {ret'.val} :
                  /\ ~ret'.err
                  /\ ret'.hops = 0
                  /\ after.nodes = {n}
                  /\ ret'.op \in {"insert", "update"} =>
                        holders(after, k) = {n} /\ lookup_value(after, k, n) = v
                  /\ ret'.op = "delete" => holders(after, k) = {}
                  /\ ret'.op = "lookup" =>
                        v = lookup_value(network, k, n) /\ after = network
      ]_vars

(* A one-node network on which an insert was applied at the node with 0    *)
(* hops.                                                                   *)
C15_Witness ==
    /\ Cardinality(nodes) = 1
    /\ ret.op = "insert"
    /\ ret.hops = 0
    /\ recorded = <<Observation("insert", 0)>>
    /\ holders(network, ret.key) = nodes


(* The structural state of node n on the network net: successor,           *)
(* predecessor and fingers in Chord, leaves and routing table in Pastry.   *)
structure_of(net, n) ==
    IF overlay = "chord"
    THEN <<net.chord.successor[n], net.chord.predecessor[n], net.chord.finger[n]>>
    ELSE <<SeqRange(net.pastry.leaf_set[n]), net.pastry.routing_table[n]>>

(* The entries stored on net, as <<holder, id the entry is routed to>>:    *)
(* one per node and key-ID in Chord, one per node and key in Pastry.       *)
stored_entries(net) ==
    IF overlay = "chord"
    THEN UNION {{<<n, <<kid>>, kid>> : kid \in DOMAIN net.data[n]} : n \in net.nodes}
    ELSE UNION {{<<n, k, hash_128(k)>> : k \in DOMAIN net.kv_store[n]} : n \in net.nodes}

(* The sums of hops that re-routing every entry of es on net can give,     *)
(* each entry from some node of net.                                       *)
RECURSIVE migration_sums(_, _)
migration_sums(net, es) ==
    IF es = {} THEN {0}
    ELSE LET e == CHOOSE x \in es : TRUE
         IN  {route_hops(net, s, e[3]) + m : s \in net.nodes, m \in migration_sums(net, es \ {e})}

C17_LeaveOfAbsentNodeIsNoop ==
    [][ (ret'.op = "leave" /\ (nodes = {} \/ ret'.node_id \notin nodes)) =>
            /\ ~ret'.err
            /\ ret'.hops = 0
            /\ recorded' = <<Observation("leave", 0)>>
            /\ network' = network
      ]_vars

(* A leave(node_id) of an id that is not live has returned 0 on a network  *)
(* of two or more nodes that stores entries.                               *)
C17_Witness ==
    /\ ret.op = "leave"
    /\ ret.node_id \notin nodes
    /\ ret.hops = 0
    /\ recorded = <<Observation("leave", 0)>>
    /\ Cardinality(nodes) >= 2
    /\ stored_entries(network) # {}


(* C18: concurrent lookups do not observe partial rebuilds.  A lookup(k)   *)
(* that runs while another thread is inside join() or leave() (the network *)
(* stays non-empty), for a key k that was stored when that call started    *)
(* and is never deleted, returns k's value and never null.  Stated on the  *)
(* two-thread ChordNetwork, whose second thread never deletes.             *)
C18_LookupDuringRebuild ==
    [][ ( /\ in_progress.pc # "idle"
          /\ in_progress' = in_progress
          /\ ret'.op = "lookup"
          /\ data' = data
          /\ chord_key_id(ret'.key) \in in_progress.stored_at_start )
        => ret'.val # Null
      ]_vars


(* C19: network operations are linearisable.  In particular an insert(k,v) *)
(* that has returned is not lost or reverted by a concurrent join() or     *)
(* leave(): once no join() or leave() is running, every key_id holds, on   *)
(* some node, the value last written under it by an insert that returned   *)
(* (no operation of the two threads deletes).  Stated on the two-thread    *)
(* ChordNetwork.                                                           *)
C19_ReturnedInsertNotLost ==
    (overlay = "chord" /\ in_progress.pc = "idle" /\ nodes # {}) =>
        \A kid \in DOMAIN written :
            written[kid] # Null =>
                \E n \in nodes : kid \in DOMAIN data[n] /\ data[n][kid] = <<written[kid]>>


(* C20: determinism.  Two Network instances of the same overlay, built     *)
(* with the same N and the same seed and then given the same calls one     *)
(* after the other, return identical hop counts and join/leave costs for   *)
(* every call and have identical node sets, structures, stores, recorded   *)
(* observations and rng states after every call, whatever the second       *)
(* instance was used for before the build.                                 *)
C20_Determinism ==
    (twin # NoTwin /\ twin[1].ret.op # "init") => twin[1] = twin[2]

(* Both instances returned from a join that cost two or more, on three or  *)
(* more nodes of which one stores the key.                                 *)
C20_Witness ==
    /\ twin # NoTwin
    /\ twin[1].ret.op = "join"
    /\ twin[2].ret.op = "join"
    /\ twin[1].ret.hops >= 2
    /\ Cardinality(twin[1].nodes) >= 3
    /\ \E n \in twin[1].nodes : twin[1].store[n] # EmptyDict

ContractOps == {"insert", "lookup", "update", "delete", "join", "leave"}

C22_MetricsAccounting ==
    /\ [](Len(twin) = 1 =>
            /\ DOMAIN summary(metrics) = DOMAIN calls
            /\ DOMAIN calls \subseteq ContractOps
            /\ \A op \in DOMAIN calls :
                  calls[op] >= 1 /\ summary(metrics)[op].count = calls[op])
    /\ [][(Len(twin) = 1 /\ twin'[1].ret.op # "build") =>
            \A op \in {twin'[1].ret.op} :
                /\ op \in ContractOps
                /\ DOMAIN metrics' = DOMAIN metrics \cup {op}
                /\ \A o \in DOMAIN metrics \ {op} : metrics'[o] = metrics[o]
                /\ \A before \in {IF op \in DOMAIN metrics THEN metrics[op] ELSE <<>>} :
                      metrics'[op] = before \o <<twin'[1].ret.hops>>]_vars

(* Two joins, a leave and no other call returned since the last build, and *)
(* one of the joins cost something.                                        *)
C22_Witness ==
    /\ Len(twin) = 1
    /\ DOMAIN calls = {"join", "leave"}
    /\ calls["join"] = 2
    /\ \E i \in 1 .. 2 : metrics["join"][i] > 0

(* C23: EmptyNetwork.  insert, lookup, update and delete on a network      *)
(* with no live node (never built, built with no node, or emptied by the   *)
(* leave of the last node) raise an error to the caller, record no         *)
(* observation, and create no node and no store entry, in both overlays.   *)
C23_EmptyNetworkError ==
    [][(nodes = {} /\ ret'.op \in DataOps /\ ret' # ret) =>
            /\ ret'.err
            /\ recorded' = <<>>
            /\ nodes' = {}
            /\ \A before \in {network}, after \in {network'} : after = before]_vars

(* A data operation raised on a Chord network that the leave of its last   *)
(* node emptied, or on a Pastry network without nodes.                     *)
C23_Witness ==
    /\ nodes = {}
    /\ ret.err
    /\ ret.op \in DataOps
    /\ overlay = "chord" => sorted_ids # <<>>

(* C30: in_interval(x, a, b, inclusive_right) is true exactly when x lies  *)
(* on the clockwise arc that starts after a and ends at b, with b included *)
(* iff inclusive_right.  When a = b the inclusive interval is the whole    *)
(* ring and the exclusive interval is every id except a, so that the       *)
(* interval between equal ends is not empty; (a, b] is never empty.        *)
steps_cw(a, x) == IF x = a THEN MOD ELSE (x - a) % MOD

C30_InIntervalIsClockwiseArc ==
    ret.op = "in_interval" =>
        /\ ret.val <=> \/ steps_cw(ret.a, ret.x) < steps_cw(ret.a, ret.b)
                       \/ ret.inclusive_right /\ steps_cw(ret.a, ret.x) = steps_cw(ret.a, ret.b)
        /\ (ret.a = ret.b /\ ret.inclusive_right) => ret.val
        /\ (ret.a = ret.b /\ ~ret.inclusive_right) => (ret.val <=> ret.x # ret.a)
        /\ \E y \in IDs : in_interval(y, ret.a, ret.b, TRUE)
        /\ ret.a = ret.b => \E y \in IDs : in_interval(y, ret.a, ret.b, ret.inclusive_right)

(* The test was true for an x below both ends of an interval that wraps.   *)
C30_Witness ==
    /\ ret.op = "in_interval"
    /\ ret.val
    /\ ret.b < ret.a
    /\ ret.x < ret.b


----------------------------------------------------------------------------
(* The nodes met by following successor pointers from a node, the node     *)
(* itself included, in at most steps steps.                                *)
RECURSIVE followed(_, _, _)
followed(succ, from, steps) ==
    IF steps = 0 THEN {from}
    ELSE {from} \cup followed(succ, succ[from], steps - 1)

(* C24: node-level ring coherence.  Starting from a singleton ring, with   *)
(* every join(existing live node) and every leave() followed by            *)
(* MaintRounds = 3 maintenance rounds or more (each round in any order of  *)
(* the nodes), every live node has successor and predecessor set, both are *)
(* live, both differ from the node when two or more nodes are live, and    *)
(* the pointers form one doubly linked ring over the live nodes.           *)
C24_RingCoherence ==
    settled =>
        \A n \in nodes :
            /\ successor[n] \in nodes
            /\ predecessor[n] \in nodes
            /\ Cardinality(nodes) >= 2 => successor[n] # n /\ predecessor[n] # n
            /\ predecessor[successor[n]] = n
            /\ successor[predecessor[n]] = n
            /\ followed(successor, n, Cardinality(nodes) - 1) = nodes

----------------------------------------------------------------------------
(* C28: node-level finger correctness.  Once MaintRounds rounds (any order *)
(* of the nodes in each) have run after a join or a leave, for every live  *)
(* node n and every i in [0, m) n.finger[i] is the live node that is the   *)
(* ring successor of (n.id + 2^i) mod 2^m, n.finger[0] is n.successor, and *)
(* no finger of a live node refers to a node that has left.                *)
C28_FingersAfterStabilisation ==
    (settled /\ calls.changes >= 1) =>
        \A n \in nodes :
            /\ \A i \in 1 .. RingBits :
                  /\ finger[n][i] \in nodes
                  /\ finger[n][i] = ring_successor((n + 2 ^ (i - 1)) % RingMod)
            /\ finger[n][1] = successor[n]


----------------------------------------------------------------------------
(* C27: node-level key placement.  Once MaintRounds rounds have run after  *)
(* a join (a join next to the wrap point of the id space included), every  *)
(* key-ID k in the store of a live node n lies in (predecessor(n).id,      *)
(* n.id], so that the keys a joining node pulled from its successor are    *)
(* the ones of that interval and no others.                                *)
C27_KeyPlacementAfterStabilisation ==
    (settled /\ calls.changes >= 1) =>
        \A n \in nodes : \A k \in DOMAIN data[n] :
            /\ predecessor[n] # None
            /\ in_interval(k, predecessor[n], n, TRUE)


----------------------------------------------------------------------------
(* C25: node-level retrievability after leave.  In a settled ring in which *)
(* get returns the records put for every key, after one node calls leave() *)
(* and MaintRounds rounds have run (any order of the nodes in each),       *)
(* get(key) at every surviving node returns the records put, for every key *)
(* put.                                                                    *)
C25_RetrievableAfterLeave ==
    (settled /\ calls.changes = 2 /\ nodes # {}) => retrievable


----------------------------------------------------------------------------
(* The live nodes whose store holds value v under key-ID kid.              *)
live_holders(kid, v) ==
    {n \in nodes : kid \in DOMAIN data[n] /\ v \in SeqRange(data[n][kid])}

(* C26: node-level record conservation.  After any sequence of put, join,  *)
(* leave and maintenance rounds that leaves a live node, every record put  *)
(* is in the store of exactly one live node, once, no store holds a record *)
(* that was not put, and the union of the live nodes' stores has as many   *)
(* key-IDs as were put.                                                    *)
C26_RecordConservation ==
    (overlay = "ring" /\ nodes # {}) =>
        /\ \A kid \in DOMAIN written : \A v \in SeqRange(written[kid]) :
              /\ Cardinality(live_holders(kid, v)) = 1
              /\ \A n \in live_holders(kid, v) :
                    Cardinality({i \in 1 .. Len(data[n][kid]) : data[n][kid][i] = v}) = 1
        /\ \A n \in nodes : \A kid \in DOMAIN data[n] :
              SeqRange(data[n][kid]) \subseteq SeqRange(written[kid])
        /\ Cardinality(UNION {DOMAIN data[n] : n \in nodes})
              = Cardinality({kid \in DOMAIN written : written[kid] # <<>>})


----------------------------------------------------------------------------
(* A stabilised ring: the successor and predecessor pointers form the      *)
(* sorted ring of the live nodes and every finger is the ring successor of *)
(* its start.                                                              *)
stabilised ==
    /\ overlay = "ring"
    /\ nodes # {}
    /\ \A n \in nodes :
          /\ successor[n] = ring_successor((n + 1) % RingMod)
          /\ predecessor[n] \in nodes
          /\ successor[predecessor[n]] = n
          /\ \A i \in 1 .. RingBits :
                finger[n][i] = ring_successor((n + 2 ^ (i - 1)) % RingMod)

(* C29: node-level multi-record semantics.  A put on a stabilised ring,    *)
(* at any live node, appends its value to the list stored under the        *)
(* key-ID at the ring successor of the key-ID and changes nothing else: a  *)
(* second put of the same key or of a colliding key leaves both values     *)
(* there in put order, nothing is overwritten.                             *)
C29_MultiRecordPut ==
    [][(stabilised /\ written' # written) =>
          LET key_id == hash_key(ret'.key)
              node == ring_successor(key_id)
              old == IF key_id \in DOMAIN data[node] THEN data[node][key_id] ELSE <<>>
          IN  /\ ret'.op = "put"
              /\ written'[key_id] = written[key_id] \o ret'.val
              /\ DOMAIN data'[node] = DOMAIN data[node] \cup {key_id}
              /\ data'[node][key_id] = old \o ret'.val
              /\ \A k \in DOMAIN data[node] \ {key_id} : data'[node][k] = data[node][k]
              /\ \A n \in DOMAIN data \ {node} : data'[n] = data[n]
              /\ stabilised']_vars

(* Two colliding keys k1 and k2 were put on a stabilised ring of two nodes *)
(* or more, k2 last: the list at the ring successor of their key-ID holds  *)
(* both values in put order.                                               *)
C29_Witness ==
    /\ stabilised
    /\ Cardinality(nodes) >= 2
    /\ ret.op = "put"
    /\ ret.key = "k2"
    /\ ret.val = <<"v2">>
    /\ written[hash_key("k2")] = <<"v1", "v2">>
    /\ data[ring_successor(hash_key("k2"))][hash_key("k1")] = <<"v1", "v2">>


(* The clockwise arc from node to key on the ring of 2^RingBits ids, a     *)
(* whole turn when node is at key.                                         *)
ring_arc(node, key) == IF node = key THEN RingMod ELSE (key - node) % RingMod

shortens(path, key) ==
    \A i \in 1 .. Len(path) - 1 : ring_arc(path[i + 1], key) < ring_arc(path[i], key)

(* C31: on every ChordNode object (live, freshly joined or left) and for   *)
(* every key id, find_predecessor, find_successor and lookup_with_hops     *)
(* return, and every advance of their loops strictly shortens the          *)
(* clockwise arc from the current node to the key.                         *)
C31_NodeRoutingTerminates ==
    overlay = "ring" =>
        \A self \in DOMAIN successor, key \in 0 .. RingMod - 1 :
            /\ find_successor(RingStruct, self, key) # Diverges
            /\ lookup_with_hops(RingStruct, self, key)[1] # Diverges
            /\ shortens(find_predecessor_path(RingStruct, key, <<self>>), key)
            /\ shortens(lookup_path(RingStruct, key, <<self>>), key)

(* A walk of two advances in a state with a left object that a live node   *)
(* still has as a finger.                                                  *)
C31_Witness ==
    /\ overlay = "ring"
    /\ \E self \in nodes, key \in 0 .. RingMod - 1 :
           Len(lookup_path(RingStruct, key, <<self>>)) >= 3
    /\ \E n \in nodes : SeqRange(finger[n]) \ nodes # {}

(* C32: in every node-level state and for every key id, lookup_with_hops   *)
(* at a node returns the node that find_successor returns at that node,    *)
(* and its hop count is one more than the number of advances of its walk,  *)
(* hence at least 1.                                                       *)
C32_LookupRefinesFindSuccessor ==
    overlay = "ring" =>
        \A self \in DOMAIN successor, key \in 0 .. RingMod - 1 :
            LET found == lookup_with_hops(RingStruct, self, key)
            IN  /\ found[1] = find_successor(RingStruct, self, key)
                /\ found[2] = Len(lookup_path(RingStruct, key, <<self>>))
                /\ found[2] >= 1

(* C33: n.stabilize() sets n.successor to x = n.successor.predecessor      *)
(* exactly when x is known and x lies strictly inside (n, n.successor),    *)
(* then the (possibly new) successor takes n as predecessor exactly when   *)
(* its predecessor is unknown or n lies strictly inside (predecessor, it); *)
(* no other successor or predecessor, no finger and no store changes.      *)
C33_StabilizeNotify ==
    [][ret'.op = "stabilize" =>
        LET n == ret'.node_id
            old == successor[n]
            x == predecessor[old]
            new == IF x # None /\ in_interval(x, n, old, FALSE) THEN x ELSE old
            p == predecessor[new]
        IN  /\ successor'[n] = new
            /\ predecessor'[new] = IF p = None \/ in_interval(n, p, new, FALSE)
                                   THEN n ELSE p
            /\ \A other \in DOMAIN successor \ {n} : successor'[other] = successor[other]
            /\ \A other \in DOMAIN predecessor \ {new} :
                   predecessor'[other] = predecessor[other]
            /\ finger' = finger
            /\ data' = data
            /\ nodes' = nodes]_vars

(* stabilize has run at a node of a three-node ring whose successor, not   *)
(* the node itself, now has it as predecessor while the node's own         *)
(* predecessor is still unknown.                                           *)
C33_Witness ==
    /\ overlay = "ring"
    /\ ret.op = "stabilize"
    /\ Cardinality(nodes) = 3
    /\ successor[ret.node_id] # ret.node_id
    /\ predecessor[successor[ret.node_id]] = ret.node_id
    /\ predecessor[ret.node_id] = None

(* C34: n.leave() moves every key-ID list of n into the store of           *)
(* n.successor, appending to a list already there, empties n's store,     *)
(* sets predecessor.successor = successor and successor.predecessor =      *)
(* predecessor, and resets n to a singleton (the reset is what remains     *)
(* where n is its own neighbour); no finger, successor, predecessor or     *)
(* store of any other node changes.                                        *)
C34_LeaveFrame ==
    [][ret'.op = "leave" =>
        LET n == ret'.node_id
            s == successor[n]
            p == predecessor[n]
        IN  /\ IF s # n THEN data'[s] = merged_into(data[s], data[n])
                        ELSE data[n] = EmptyDict
            /\ data'[n] = EmptyDict
            /\ p \notin {None, n} => successor'[p] = s
            /\ s # n => predecessor'[s] = p
            /\ successor'[n] = n
            /\ predecessor'[n] = n
            /\ finger'[n] = [i \in 1 .. RingBits |-> n]
            /\ \A other \in DOMAIN data \ {n, s} : data'[other] = data[other]
            /\ \A other \in DOMAIN successor \ {n, p} : successor'[other] = successor[other]
            /\ \A other \in DOMAIN predecessor \ {n, s} :
                   predecessor'[other] = predecessor[other]
            /\ \A other \in DOMAIN finger \ {n} : finger'[other] = finger[other]]_vars

(* C35: Pastry routing terminates without a hop limit.  On every topology  *)
(* reached through build, join and leave, from every live start node to    *)
(* every target id, each hop of _route goes to a node strictly closer to   *)
(* the target by circular distance, no node is visited twice, and the      *)
(* route ends after at most |nodes| - 1 hops at the node and with the hop  *)
(* count _route returns.                                                   *)
C35_PastryRouteTerminates ==
    overlay = "pastry" =>
        \A s \in nodes, t \in IDs :
            LET path == pastry_route_path(PastryStruct, t, <<s>>)
            IN  /\ \A i \in 1 .. Len(path) - 1 :
                       circ_dist(path[i + 1], t) < circ_dist(path[i], t)
                /\ Cardinality(SeqRange(path)) = Len(path)
                /\ Len(path) - 1 <= Cardinality(nodes) - 1
                /\ pastry_route(PastryStruct, s, t) = <<path[Len(path)], Len(path) - 1>>

(* A route of two hops on a network of four nodes.                         *)
C35_Witness ==
    /\ overlay = "pastry"
    /\ Cardinality(nodes) = 4
    /\ \E s \in nodes, t \in IDs : Len(pastry_route_path(PastryStruct, t, <<s>>)) = 3

(* What next_hop returns at the live node current for target t when the    *)
(* route has the nodes of visited behind it.                               *)
hop_at(current, t, visited) ==
    next_hop(current, leaf_set[current], routing_table[current], t,
             candidates_with_self(leaf_set[current], current)
                 \o row_candidates(routing_table[current], common_prefix_len_hex(current, t)),
             visited)

(* The leaf-set step of next_hop at current finds a strictly closer leaf.  *)
leaf_improves(current, t) ==
    LET best_leaf == closest_to(leaf_set[current], current, t)
    IN  best_leaf # current /\ circ_dist(best_leaf, t) < circ_dist(current, t)

(* C36: with a leaf-set size of 2 or more, every hop next_hop chooses is   *)
(* a member of the current node's leaf set; where the leaf-set step finds  *)
(* no strictly closer leaf the current node is already at minimal circular *)
(* distance to the target among the live nodes, and the routing-table and  *)
(* fallback steps return the node itself.                                  *)
C36_HopsAreLeafSetMembers ==
    (overlay = "pastry" /\ leaf_L >= 2) =>
        \A current \in nodes, t \in IDs :
            \A visited \in {v \in SUBSET nodes : current \in v} :
                LET nxt == hop_at(current, t, visited)
                IN  /\ nxt \in SeqRange(leaf_set[current]) \cup {current}
                    /\ ~leaf_improves(current, t) =>
                          /\ \A n \in nodes : circ_dist(current, t) <= circ_dist(n, t)
                          /\ nxt = current

(* Four nodes with leaf sets of two, so that each node has a live node     *)
(* outside its leaf set: at one node the leaf-set step finds no closer     *)
(* leaf, at another it finds one while the routing table holds the target  *)
(* itself, a node outside the leaf set.                                    *)
C36_Witness ==
    /\ overlay = "pastry"
    /\ leaf_L = 2
    /\ Cardinality(nodes) = 4
    /\ \E current \in nodes, t \in IDs :
           /\ ~leaf_improves(current, t)
           /\ nodes \ (SeqRange(leaf_set[current]) \cup {current}) # {}
    /\ \E current \in nodes, t \in nodes :
           LET p == common_prefix_len_hex(current, t)
               th == to_hex128(t)
           IN  /\ leaf_improves(current, t)
               /\ p < Len(th)
               /\ rt_has_entry(routing_table[current], p, th[p + 1])
               /\ routing_table[current][p][th[p + 1]] = t
               /\ t \notin SeqRange(leaf_set[current])
               /\ hop_at(current, t, {current}) \in SeqRange(leaf_set[current])

(* C37: after every contract call, every successor, predecessor and finger *)
(* of a live ChordNetwork node and every leaf-set and routing-table entry  *)
(* of a live PastryNetwork node is a live node, and sorted_ids of          *)
(* ChordNetwork is the sorted list of the live node ids.                   *)
C37_NoDanglingReferences ==
    /\ overlay = "chord" =>
          /\ \A n \in nodes :
                /\ successor[n] \in nodes
                /\ predecessor[n] \in nodes
                /\ SeqRange(finger[n]) \subseteq nodes
          /\ sorted_ids = SortedSeq(nodes)
    /\ overlay = "pastry" =>
          \A n \in nodes :
              /\ SeqRange(leaf_set[n]) \subseteq nodes
              /\ \A row \in DOMAIN routing_table[n] :
                     \A col \in DOMAIN routing_table[n][row] :
                         routing_table[n][row][col] \in nodes

(* C38: for every operation with at least one recorded hop count,          *)
(* summary() reports min <= median <= p95 <= max of the recorded values,   *)
(* with median the sorted value at index floor(n / 2) and p95 the sorted   *)
(* value at index floor(0.95 * (n - 1)), indices counted from 0.           *)
C38_SummaryOrdered ==
    \A op \in DOMAIN metrics :
        metrics[op] # <<>> =>
            LET values == metrics[op]
                n == Len(values)
                ascending == sorted(values)
                reported == summary(metrics)[op]
            IN  /\ reported.median = ascending[(n \div 2) + 1]
                /\ reported.p95 = ascending[((95 * (n - 1)) \div 100) + 1]
                /\ SetMin(SeqRange(values)) <= reported.median
                /\ reported.median <= reported.p95
                /\ reported.p95 <= SetMax(SeqRange(values))

(* join(): the ids with which the loop                                     *)
(*   new_id = getrandbits(m_bits); while new_id in self.nodes: draw again  *)
(* can end on the node table ns; the loop never ends when there is none.   *)
join_new_ids(ns) == IDs \ ns

(* C39: join() on a non-empty network terminates, for every network size   *)
(* and id width, and adds exactly one node, with an id that no live node   *)
(* has, keeping every node that was there.                                 *)
C39_JoinAddsOneNode ==
    /\ [](nodes # {} => join_new_ids(nodes) # {})
    /\ [][(ret'.op = "join" /\ nodes # {}) =>
              \E new_id \in join_new_ids(nodes) : nodes' = nodes \cup {new_id}]_vars

(* The number of observations recorded under op.                           *)
count_of(hops, op) == IF op \in DOMAIN hops THEN Len(hops[op]) ELSE 0

(* C40: in a batch of K lookups run by a thread pool on a built network,   *)
(* with no other call running, every lookup returns the value the same     *)
(* lookup returns when the batch is called in turn, no store and no        *)
(* routing structure changes, and once all have returned exactly K         *)
(* observations have been added under lookup and none under another        *)
(* operation; in both overlays.                                            *)
C40_ReadOnlyBatch ==
    calls.phase = "batch" =>
        /\ \A i \in DOMAIN calls.pc :
               calls.pc[i] = "done" => calls.val[i] = calls.in_turn[i]
        /\ twin[1].store = calls.submitted.store
        /\ twin[1].st = calls.submitted.st
        /\ twin[1].nodes = calls.submitted.nodes
        /\ (\A i \in DOMAIN calls.pc : calls.pc[i] = "done") =>
               /\ count_of(metrics, "lookup")
                      = count_of(calls.observed, "lookup") + Len(calls.keys)
               /\ \A op \in (DOMAIN metrics \cup DOMAIN calls.observed) \ {"lookup"} :
                      count_of(metrics, op) = count_of(calls.observed, op)

====
